---------------------------- MODULE Spec2Model ----------------------------
(***************************************************************************)
(* Model of the NovaCRM assistant pipeline (src/app/graph.py) with its     *)
(* guardrails (src/app/validation.py) and tool client                      *)
(* (src/app/mcp_client.py).  Python strings are TLA+ strings; a character  *)
(* is a string of length one, and an optional value that is None is the    *)
(* string NoneVal.                                                         *)
(***************************************************************************)
EXTENDS Integers, Sequences, FiniteSets, TLC

(***************************************************************************)
(* Bounds of the model.                                                    *)
(***************************************************************************)
MaxInvocations == 1

\* the number of threads that run validate_answer on one OutputValidator
MaxWorkers == 2

\* the number of pieces a text given to sanitize_output is built from
MaxPieces == 4

\* the number of pieces a text given to check_pii_exposure is built from
MaxPiiPieces == 3

\* the number of pieces a query given to _determine_tool_calls is built from
MaxWords == 3

(***************************************************************************)
(* Python str operations.                                                  *)
(***************************************************************************)
NoneVal == "<None>"

Ch(s, i) == SubSeq(s, i, i)

CharsOf(s) == {Ch(s, i) : i \in 1..Len(s)}

UpperChars == "ABCDEFGHIJKLMNOPQRSTUVWXYZ"
LowerChars == "abcdefghijklmnopqrstuvwxyz"
DigitChars == "0123456789"

Digits == CharsOf(DigitChars)
Letters == CharsOf(UpperChars) \cup CharsOf(LowerChars)
WordChars == Letters \cup Digits \cup {"_"}
Whitespace == {" ", "\n", "\t", "\r"}

Min(a, b) == IF a < b THEN a ELSE b

\* the lowercase of each uppercase letter, and the reverse
LowerOf ==
    [c \in CharsOf(UpperChars) |->
        Ch(LowerChars, CHOOSE i \in 1..Len(UpperChars) : Ch(UpperChars, i) = c)]

UpperOf ==
    [c \in CharsOf(LowerChars) |->
        Ch(UpperChars, CHOOSE i \in 1..Len(LowerChars) : Ch(LowerChars, i) = c)]

LowerChar(c) == IF c \in DOMAIN LowerOf THEN LowerOf[c] ELSE c

UpperChar(c) == IF c \in DOMAIN UpperOf THEN UpperOf[c] ELSE c

\* s[lo..hi] with the characters at the indices in at, all within lo..hi,
\* replaced by their images under map
RECURSIVE MapAt(_, _, _, _, _)
MapAt(s, map, at, lo, hi) ==
    IF at = {} THEN SubSeq(s, lo, hi)
    ELSE LET i == CHOOSE i \in at : \A j \in at : i <= j
         IN  SubSeq(s, lo, i - 1) \o map[Ch(s, i)]
             \o MapAt(s, map, at \ {i}, i + 1, hi)

\* the same in blocks of 32 characters, which keeps the recursion shallow
RECURSIVE MapBlocks(_, _, _)
MapBlocks(s, map, lo) ==
    IF lo > Len(s) THEN ""
    ELSE LET hi == Min(lo + 31, Len(s))
         IN  MapAt(s, map, {i \in lo..hi : Ch(s, i) \in DOMAIN map}, lo, hi)
             \o MapBlocks(s, map, hi + 1)

\* str.lower() and str.upper(), character by character
ToLower(s) == MapBlocks(s, LowerOf, 1)

ToUpper(s) == MapBlocks(s, UpperOf, 1)

\* s[i:i+len(sub)] == sub
OccursAt(s, sub, i) ==
    /\ i >= 1
    /\ i + Len(sub) - 1 <= Len(s)
    /\ sub # "" => Ch(s, i) = Ch(sub, 1) /\ SubSeq(s, i, i + Len(sub) - 1) = sub

\* the indices from lo to hi where sub, a non-empty string, occurs in s
Occurrences(s, sub, lo, hi) ==
    LET first == Ch(sub, 1)
    IN  {i \in lo..Min(hi, Len(s) - Len(sub) + 1) :
            Ch(s, i) = first /\ SubSeq(s, i, i + Len(sub) - 1) = sub}

\* sub in s
Contains(s, sub) ==
    LET first == Ch(sub, 1)
    IN  \/ sub = ""
        \/ \E i \in 1..(Len(s) - Len(sub) + 1) :
              Ch(s, i) = first /\ SubSeq(s, i, i + Len(sub) - 1) = sub

\* the first index >= from where sub occurs in s, 0 when there is none
FirstOcc(s, sub, from) ==
    LET found == IF sub = "" THEN from..Len(s)
                 ELSE Occurrences(s, sub, from, Len(s))
    IN  IF found = {} THEN 0
        ELSE CHOOSE i \in found : \A j \in found : i <= j

StartsWith(s, prefix) == OccursAt(s, prefix, 1)

\* str.isdigit()
IsDigit(s) == s # "" /\ \A i \in 1..Len(s) : Ch(s, i) \in Digits

\* the first index >= from of a character in (inside) or not in (~inside) cls,
\* Len(s) + 1 when there is none
FirstChar(s, cls, inside, from) ==
    IF \E i \in from..Len(s) : (Ch(s, i) \in cls) = inside
    THEN CHOOSE i \in from..Len(s) :
            /\ (Ch(s, i) \in cls) = inside
            /\ \A j \in from..(i - 1) : (Ch(s, j) \in cls) # inside
    ELSE Len(s) + 1

\* str.strip()
Strip(s) ==
    LET lo == FirstChar(s, Whitespace, FALSE, 1)
    IN  IF lo > Len(s) THEN ""
        ELSE SubSeq(s, lo, Len(s) - (CHOOSE trailing \in 0..(Len(s) - lo) :
                                        /\ Ch(s, Len(s) - trailing) \notin Whitespace
                                        /\ \A j \in 0..(trailing - 1) :
                                              Ch(s, Len(s) - j) \in Whitespace))

\* sep.join(parts)
RECURSIVE Join(_, _)
Join(parts, sep) ==
    IF parts = <<>> THEN ""
    ELSE IF Len(parts) = 1 THEN parts[1]
    ELSE parts[1] \o sep \o Join(Tail(parts), sep)

\* str.split(): the maximal runs of non-whitespace characters, in order
RECURSIVE SplitFrom(_, _)
SplitFrom(s, pos) ==
    LET start == FirstChar(s, Whitespace, FALSE, pos)
        stop == FirstChar(s, Whitespace, TRUE, start)
    IN  IF start > Len(s) THEN <<>>
        ELSE <<SubSeq(s, start, stop - 1)>> \o SplitFrom(s, stop)

Split(s) == SplitFrom(s, 1)

\* str.zfill(width)
RECURSIVE ZFill(_, _)
ZFill(s, width) == IF Len(s) >= width THEN s ELSE ZFill("0" \o s, width)

\* str.replace(old, new): the non-overlapping occurrences, left to right
RECURSIVE ReplaceFrom(_, _, _, _)
ReplaceFrom(s, old, new, pos) ==
    LET i == FirstOcc(s, old, pos)
    IN  IF i = 0 THEN SubSeq(s, pos, Len(s))
        ELSE SubSeq(s, pos, i - 1) \o new \o ReplaceFrom(s, old, new, i + Len(old))

Replace(s, old, new) == ReplaceFrom(s, old, new, 1)

\* str.title(): a letter is uppercased after a non-letter, lowercased after a letter
RECURSIVE TitleRange(_, _, _)
TitleRange(s, lo, hi) ==
    IF lo > hi THEN ""
    ELSE IF lo = hi
         THEN IF lo > 1 /\ Ch(s, lo - 1) \in Letters
              THEN LowerChar(Ch(s, lo))
              ELSE UpperChar(Ch(s, lo))
         ELSE TitleRange(s, lo, (lo + hi) \div 2)
              \o TitleRange(s, (lo + hi) \div 2 + 1, hi)

Title(s) == TitleRange(s, 1, Len(s))

(***************************************************************************)
(* Python re: a pattern is a sequence of alternatives tried in order, an   *)
(* alternative a sequence of items matched left to right with greedy       *)
(* quantifiers and backtracking.  An item is a character class with a      *)
(* repetition range, or the assertion \b.                                  *)
(***************************************************************************)
\* a repetition with max = -1 has no upper limit
Cls(chars, lo, hi) == [kind |-> "cls", cls |-> chars, min |-> lo, max |-> hi]
WordBoundary == [kind |-> "wb", cls |-> {}, min |-> 0, max |-> 0]
One(chars) == Cls(chars, 1, 1)
Opt(chars) == Cls(chars, 0, 1)
Rep(chars, n) == Cls(chars, n, n)

IsWordAt(s, pos) == pos >= 1 /\ pos <= Len(s) /\ Ch(s, pos) \in WordChars

\* \b between s[pos-1] and s[pos]
AtWordBoundary(s, pos) == IsWordAt(s, pos - 1) # IsWordAt(s, pos)

\* the number of consecutive characters of class cls from pos, at most cap
\* (no limit when cap < 0)
Run(s, pos, cls, cap) ==
    LET n == FirstChar(s, cls, FALSE, pos) - pos
    IN  IF cap >= 0 /\ n > cap THEN cap ELSE n

\* the position after the first match of items k.. of alternative re at pos,
\* 0 when there is none
RECURSIVE MatchItems(_, _, _, _)
RECURSIVE TryCounts(_, _, _, _, _)
MatchItems(re, s, k, pos) ==
    IF k > Len(re) THEN pos
    ELSE IF re[k].kind = "wb"
         THEN IF AtWordBoundary(s, pos) THEN MatchItems(re, s, k + 1, pos) ELSE 0
         ELSE TryCounts(re, s, k, pos, Run(s, pos, re[k].cls, re[k].max))

TryCounts(re, s, k, pos, n) ==
    IF n < re[k].min THEN 0
    ELSE LET r == MatchItems(re, s, k + 1, pos + n)
         IN  IF r # 0 THEN r ELSE TryCounts(re, s, k, pos, n - 1)

RECURSIVE MatchAlts(_, _, _, _)
MatchAlts(pat, s, a, pos) ==
    IF a > Len(pat) THEN 0
    ELSE LET r == MatchItems(pat[a], s, 1, pos)
         IN  IF r # 0 THEN r ELSE MatchAlts(pat, s, a + 1, pos)

MatchAt(pat, s, pos) == MatchAlts(pat, s, 1, pos)

\* re.match(pattern, s) with a pattern anchored by ^ and $: $ matches at the
\* end of s and before a newline that ends s
FullMatch(pat, s) ==
    LET e == MatchAt(pat, s, 1)
    IN  e = Len(s) + 1 \/ (e = Len(s) /\ e > 0 /\ Ch(s, Len(s)) = "\n")

\* re.findall(pattern, s) is non-empty
HasMatch(pat, s) == \E pos \in 1..Len(s) : MatchAt(pat, s, pos) > pos

\* the start of the leftmost match of pat in s at or after from, 0 when none
FirstMatch(pat, s, from) ==
    IF \E i \in from..Len(s) : MatchAt(pat, s, i) > i
    THEN CHOOSE i \in from..Len(s) :
            MatchAt(pat, s, i) > i /\ \A j \in from..(i - 1) : MatchAt(pat, s, j) <= j
    ELSE 0

\* re.sub(pattern, repl, s): leftmost non-overlapping matches replaced
RECURSIVE SubFrom(_, _, _, _)
SubFrom(pat, repl, s, pos) ==
    LET i == FirstMatch(pat, s, pos)
    IN  IF i = 0 THEN SubSeq(s, pos, Len(s))
        ELSE SubSeq(s, pos, i - 1) \o repl \o SubFrom(pat, repl, s, MatchAt(pat, s, i))

Sub(pat, repl, s) == SubFrom(pat, repl, s, 1)

(***************************************************************************)
(* SafetyGuardrails (src/app/validation.py).                               *)
(***************************************************************************)
\* self.sensitive_topics, in insertion order
sensitive_topics ==
    << [topic |-> "billing_dispute",
        keywords |-> <<"refund", "charge", "billing error", "unauthorized charge">>],
       [topic |-> "account_termination",
        keywords |-> <<"cancel subscription", "close account", "delete account">>],
       [topic |-> "data_breach",
        keywords |-> <<"breach", "hacked", "compromised", "data leak">>],
       [topic |-> "legal",
        keywords |-> <<"lawsuit", "lawyer", "legal action", "sue">>] >>

\* self.pii_patterns, in insertion order
EmailPattern ==
    << << WordBoundary,
          Cls(Letters \cup Digits \cup {".", "_", "%", "+", "-"}, 1, -1),
          One({"@"}),
          Cls(Letters \cup Digits \cup {".", "-"}, 1, -1),
          One({"."}),
          Cls(Letters \cup {"|"}, 2, -1),
          WordBoundary >> >>

PhoneTail ==
    << Opt({"("}), Rep(Digits, 3), Opt({")"}), Opt({"-", ".", " "}),
       Rep(Digits, 3), Opt({"-", ".", " "}), Rep(Digits, 4), WordBoundary >>

\* the optional group (?:\+?1[-.]?)? is tried present first, then absent
PhonePattern ==
    << <<WordBoundary, Opt({"+"}), One({"1"}), Opt({"-", "."})>> \o PhoneTail,
       <<WordBoundary>> \o PhoneTail >>

SsnPattern ==
    << << WordBoundary, Rep(Digits, 3), One({"-"}), Rep(Digits, 2), One({"-"}),
          Rep(Digits, 4), WordBoundary >> >>

CreditCardPattern ==
    << << WordBoundary, Rep(Digits, 4), Opt({"-"} \cup Whitespace),
          Rep(Digits, 4), Opt({"-"} \cup Whitespace),
          Rep(Digits, 4), Opt({"-"} \cup Whitespace),
          Rep(Digits, 4), WordBoundary >> >>

pii_patterns ==
    << [type |-> "email", pattern |-> EmailPattern],
       [type |-> "phone", pattern |-> PhonePattern],
       [type |-> "ssn", pattern |-> SsnPattern],
       [type |-> "credit_card", pattern |-> CreditCardPattern] >>

\* a mask of zeros in place of the bracketed placeholder
PlaceholderOfZeros(pii_type) == "000-00-0000"

\* f"[REDACTED_{pii_type.upper()}]"
Placeholder(pii_type) == "[REDACTED_" \o ToUpper(pii_type) \o "]"

\* the topics with a keyword in the lowercased query, in table order
RECURSIVE MatchedTopicsFrom(_, _)
MatchedTopicsFrom(query_lower, t) ==
    IF t > Len(sensitive_topics) THEN <<>>
    ELSE (IF \E k \in 1..Len(sensitive_topics[t].keywords) :
                Contains(query_lower, sensitive_topics[t].keywords[k])
          THEN <<sensitive_topics[t].topic>>
          ELSE <<>>) \o MatchedTopicsFrom(query_lower, t + 1)

\* the orders list(set(xs)) can produce for a duplicate-free list xs: the
\* iteration order of a set of str depends on the process's hash seed
Orderings(xs) ==
    {p \in [1..Len(xs) -> {xs[i] : i \in 1..Len(xs)}] :
        \A i \in 1..Len(xs) : \E j \in 1..Len(xs) : p[j] = xs[i]}

\* the results check_sensitive_content(query) can return
check_sensitive_content(query) ==
    LET matched == MatchedTopicsFrom(ToLower(query), 1)
    IN  { [is_sensitive |-> Len(matched) > 0,
           matched_topics |-> order,
           should_escalate |->
               /\ Len(matched) > 0
               /\ \E i \in 1..Len(matched) : matched[i] \in {"legal", "data_breach"}]
          : order \in Orderings(matched) }

\* the loop of check_pii_exposure from pattern k on: the patterns are tested
\* against the original query and substituted in the text redacted so far
RECURSIVE RedactFrom(_, _, _, _)
RedactFrom(query, k, pii_found, redacted_text) ==
    IF k > Len(pii_patterns)
    THEN [has_pii |-> Len(pii_found) > 0,
          pii_types |-> pii_found,
          redacted_text |-> redacted_text,
          original_text |-> query]
    ELSE IF HasMatch(pii_patterns[k].pattern, query)
         THEN RedactFrom(query, k + 1, Append(pii_found, pii_patterns[k].type),
                         Sub(pii_patterns[k].pattern,
                             Placeholder(pii_patterns[k].type), redacted_text))
         ELSE RedactFrom(query, k + 1, pii_found, redacted_text)

check_pii_exposure(query) == RedactFrom(query, 1, <<>>, query)

(***************************************************************************)
(* Tool parameters: a dict is the sequence of its <<key, value>> pairs in  *)
(* insertion order; an int value is written as its decimal string.         *)
(***************************************************************************)
HasKey(params, key) == \E i \in 1..Len(params) : params[i][1] = key

Get(params, key) == params[CHOOSE i \in 1..Len(params) : params[i][1] = key][2]

Keys(params) == [i \in 1..Len(params) |-> params[i][1]]

AccountIdPattern == << <<One({"A"}), Rep(Digits, 3)>> >>
PeriodPattern == << <<Rep(Digits, 4), One({"-"}), Rep(Digits, 2)>> >>

\* int(x) succeeds on the string x
IsIntStr(x) ==
    LET t == Strip(x)
        d == IF t # "" /\ Ch(t, 1) \in {"+", "-"} THEN Tail(t) ELSE t
    IN  IsDigit(d)

RECURSIVE NatOf(_)
NatOf(d) ==
    IF d = "" THEN 0
    ELSE 10 * NatOf(SubSeq(d, 1, Len(d) - 1))
         + (CHOOSE n \in 0..9 : Ch(DigitChars, n + 1) = Ch(d, Len(d)))

IntOf(x) ==
    LET t == Strip(x)
    IN  IF Ch(t, 1) = "-" THEN 0 - NatOf(Tail(t))
        ELSE IF Ch(t, 1) = "+" THEN NatOf(Tail(t))
        ELSE NatOf(t)

IntRangeErrors(params, key, lo, hi, range_error, type_error) ==
    IF ~HasKey(params, key) THEN <<>>
    ELSE IF ~IsIntStr(Get(params, key)) THEN <<type_error>>
    ELSE IF IntOf(Get(params, key)) < lo \/ IntOf(Get(params, key)) > hi
         THEN <<range_error>>
         ELSE <<>>

validate_tool_params(tool_name, params) ==
    LET errors ==
          IF tool_name = "account_lookup" THEN
              (IF ~HasKey(params, "account_id") /\ ~HasKey(params, "company")
               THEN <<"account_lookup requires either account_id or company parameter">>
               ELSE <<>>)
              \o (IF HasKey(params, "account_id")
                     /\ ~FullMatch(AccountIdPattern, Get(params, "account_id"))
                  THEN <<"Invalid account_id format: " \o Get(params, "account_id")>>
                  ELSE <<>>)
          ELSE IF tool_name = "invoice_status" THEN
              (IF ~HasKey(params, "account_id")
               THEN <<"invoice_status requires account_id parameter">>
               ELSE <<>>)
              \o (IF HasKey(params, "period")
                     /\ ~FullMatch(PeriodPattern, Get(params, "period"))
                  THEN <<"Invalid period format: " \o Get(params, "period")>>
                  ELSE <<>>)
          ELSE IF tool_name = "ticket_summary" THEN
              (IF ~HasKey(params, "account_id")
               THEN <<"ticket_summary requires account_id parameter">>
               ELSE <<>>)
              \o IntRangeErrors(params, "window_days", 1, 365,
                                "window_days must be between 1 and 365",
                                "window_days must be an integer")
          ELSE IF tool_name = "usage_report" THEN
              (IF ~HasKey(params, "account_id") \/ ~HasKey(params, "month")
               THEN <<"usage_report requires account_id and month parameters">>
               ELSE <<>>)
              \o (IF HasKey(params, "month")
                     /\ ~FullMatch(PeriodPattern, Get(params, "month"))
                  THEN <<"Invalid month format: " \o Get(params, "month")>>
                  ELSE <<>>)
          ELSE IF tool_name = "kb_search" THEN
              (IF ~HasKey(params, "query")
               THEN <<"kb_search requires query parameter">>
               ELSE <<>>)
              \o IntRangeErrors(params, "k", 1, 20,
                                "k must be between 1 and 20",
                                "k must be an integer")
          ELSE <<>>
    IN  [is_valid |-> Len(errors) = 0, errors |-> errors]

(***************************************************************************)
(* OutputValidator (src/app/validation.py).                                *)
(***************************************************************************)
banned_content_patterns ==
    << "I apologize for the confusion",
       "Let me check that for you",
       "I'm just an AI",
       "I don't have access to" >>

\* the patterns re.search finds in the answer with re.IGNORECASE
RECURSIVE BannedFrom(_, _)
BannedFrom(answer_lower, k) ==
    IF k > Len(banned_content_patterns) THEN <<>>
    ELSE (IF Contains(answer_lower, ToLower(banned_content_patterns[k]))
          THEN <<banned_content_patterns[k]>>
          ELSE <<>>) \o BannedFrom(answer_lower, k + 1)

BannedWarnings(blocked) ==
    [i \in 1..Len(blocked) |-> "Contains banned phrase: " \o blocked[i]]

\* validate_answer measuring the answer's length without stripping it
validate_answer_unstripped(answer, intent, evidence) ==
    LET answer_lower == ToLower(answer)
        blocked_patterns == BannedFrom(answer_lower, 1)
        warnings ==
            (IF answer = "" \/ Len(answer) < 10
             THEN <<"Answer is too short or empty">> ELSE <<>>)
            \o BannedWarnings(blocked_patterns)
            \o (IF intent # "Escalation" /\ evidence = <<>>
                THEN <<"No evidence provided">> ELSE <<>>)
            \o (IF (Contains(answer_lower, "definitely")
                      \/ Contains(answer_lower, "certainly"))
                   /\ Len(evidence) < 2
                THEN <<"Strong claim without sufficient evidence">> ELSE <<>>)
            \o (IF Len(answer) > 2500
                THEN <<"Answer is excessively long">> ELSE <<>>)
            \o (IF intent = "FAQ" /\ ~Contains(answer, "Sources:") /\ Len(evidence) > 0
                THEN <<"FAQ answer missing explicit source citations">> ELSE <<>>)
    IN  [is_valid |-> Len(warnings) = 0,
         warnings |-> warnings,
         blocked_patterns |-> blocked_patterns,
         answer_length |-> Len(answer),
         evidence_count |-> Len(evidence)]

\* the dict validate_answer returns; its update of self.stats is StatsAfter
validate_answer(answer, intent, evidence) ==
    LET answer_lower == ToLower(answer)
        blocked_patterns == BannedFrom(answer_lower, 1)
        warnings ==
            (IF answer = "" \/ Len(Strip(answer)) < 10
             THEN <<"Answer is too short or empty">> ELSE <<>>)
            \o BannedWarnings(blocked_patterns)
            \o (IF intent # "Escalation" /\ evidence = <<>>
                THEN <<"No evidence provided">> ELSE <<>>)
            \o (IF (Contains(answer_lower, "definitely")
                      \/ Contains(answer_lower, "certainly"))
                   /\ Len(evidence) < 2
                THEN <<"Strong claim without sufficient evidence">> ELSE <<>>)
            \o (IF Len(answer) > 2500
                THEN <<"Answer is excessively long">> ELSE <<>>)
            \o (IF intent = "FAQ" /\ ~Contains(answer, "Sources:") /\ Len(evidence) > 0
                THEN <<"FAQ answer missing explicit source citations">> ELSE <<>>)
    IN  [is_valid |-> Len(warnings) = 0,
         warnings |-> warnings,
         blocked_patterns |-> blocked_patterns,
         answer_length |-> Len(answer),
         evidence_count |-> Len(evidence)]

\* self.stats after one call of validate_answer
StatsAfter(st, is_valid, answer, evidence) ==
    [total |-> st.total + 1,
     valid |-> IF is_valid THEN st.valid + 1 ELSE st.valid,
     invalid |-> IF is_valid THEN st.invalid ELSE st.invalid + 1,
     total_evidence |-> st.total_evidence + Len(evidence),
     total_answer_length |-> st.total_answer_length + Len(answer)]

\* e.split(":")[0]
TypeOf(e) == SubSeq(e, 1, FirstOcc(e, ":", 1) - 1)

validate_evidence(evidence) ==
    LET evidence_types ==
            {TypeOf(evidence[i]) : i \in {j \in 1..Len(evidence) : Contains(evidence[j], ":")}}
        warnings ==
            (IF Len(evidence) = 0 THEN <<"No evidence collected">> ELSE <<>>)
            \o (IF evidence_types = {} THEN <<"Evidence has no type tags">> ELSE <<>>)
    IN  [is_valid |-> Len(warnings) = 0,
         warnings |-> warnings,
         has_sources |-> Len(evidence) > 0,
         evidence_count |-> Len(evidence),
         evidence_types |-> evidence_types]

check_intent_answer_match(intent, answer, evidence) ==
    IF intent = "FAQ"
    THEN \E i \in 1..Len(evidence) : Contains(evidence[i], "doc:")
    ELSE IF intent = "DataLookup"
    THEN \E i \in 1..Len(evidence) : Contains(evidence[i], "tool:")
    ELSE IF intent = "Escalation"
    THEN LET answer_lower == ToLower(answer)
         IN  Contains(answer_lower, "support") \/ Contains(answer_lower, "contact")
    ELSE TRUE

\* the newline replacement made once instead of until none is left
CollapseNewlinesOnce(text) == Replace(text, "\n\n\n", "\n\n")

\* while "\n\n\n" in text: text = text.replace("\n\n\n", "\n\n")
RECURSIVE CollapseNewlines(_)
CollapseNewlines(text) ==
    IF Contains(text, "\n\n\n")
    THEN CollapseNewlines(Replace(text, "\n\n\n", "\n\n"))
    ELSE text

sanitize_output(text) ==
    Strip(CollapseNewlines(
        Replace(Replace(text, "<script>", "[script]"), "</script>", "[/script]")))

(***************************************************************************)
(* Tool derivation (NovaCRMGraph._determine_tool_calls).  A candidate is   *)
(* the tuple <<tool_name, params>>.                                        *)
(***************************************************************************)
\* Python truthiness of an optional str
Truthy(x) == x # NoneVal /\ x # ""

CI(c) == One({LowerChar(c), UpperChar(c)})

\* r"Company[_\s](\d+)" with re.I
CompanyPattern ==
    << << CI("c"), CI("o"), CI("m"), CI("p"), CI("a"), CI("n"), CI("y"),
          One({"_"} \cup Whitespace), Cls(Digits, 1, -1) >> >>

\* match.group(1) of re.search(CompanyPattern, query)
CompanyDigits(query) ==
    LET i == FirstMatch(CompanyPattern, query, 1)
    IN  SubSeq(query, i + Len("Company") + 1, MatchAt(CompanyPattern, query, i) - 1)
\* the invoice branch without its "invoice" keyword
InvoiceCallsWithoutInvoice(query, query_lower, account_context) ==
    IF (Contains(query_lower, "payment") \/ Contains(query_lower, "billing"))
       /\ Truthy(account_context)
    THEN << << "invoice_status", <<<<"account_id", account_context>>>> >> >>
    ELSE <<>>

InvoiceCalls(query, query_lower, account_context) ==
    IF (Contains(query_lower, "invoice") \/ Contains(query_lower, "payment")
           \/ Contains(query_lower, "billing"))
       /\ Truthy(account_context)
    THEN << << "invoice_status",
               <<<<"account_id", account_context>>>>
               \o (IF Contains(query, "2025-10") \/ Contains(query_lower, "october")
                   THEN <<<<"period", "2025-10">>>>
                   ELSE IF Contains(query, "2025-09") \/ Contains(query_lower, "september")
                   THEN <<<<"period", "2025-09">>>>
                   ELSE <<>>) >> >>
    ELSE <<>>

TicketCalls(query, query_lower, account_context) ==
    IF (Contains(query_lower, "ticket") \/ Contains(query_lower, "support"))
       /\ Truthy(account_context)
    THEN << <<"ticket_summary", <<<<"account_id", account_context>>>> >> >>
    ELSE <<>>

UsageCalls(query, query_lower, account_context) ==
    IF (Contains(query_lower, "usage") \/ Contains(query_lower, "api")
           \/ Contains(query_lower, "storage"))
       /\ Truthy(account_context)
    THEN << << "usage_report",
               << <<"account_id", account_context>>,
                  << "month",
                     IF Contains(query, "2025-09") \/ Contains(query_lower, "september")
                     THEN "2025-09"
                     ELSE IF Contains(query, "2025-08") \/ Contains(query_lower, "august")
                     THEN "2025-08"
                     ELSE "2025-10" >> >> >> >>
    ELSE <<>>

\* for word in query.split(): ... from word w on
RECURSIVE AccountFromWords(_, _, _, _)
AccountFromWords(query, query_lower, words, w) ==
    IF w > Len(words) THEN <<>>
    ELSE IF StartsWith(words[w], "A") /\ IsDigit(Tail(words[w]))
    THEN << <<"account_lookup", <<<<"account_id", words[w]>>>> >> >>
    ELSE IF Contains(query_lower, "company") /\ FirstMatch(CompanyPattern, query, 1) # 0
    THEN << << "account_lookup",
               <<<<"company", "Company_" \o ZFill(CompanyDigits(query), 3)>>>> >> >>
    ELSE AccountFromWords(query, query_lower, words, w + 1)
\* the account branch without its keyword test
AccountCallsWithoutKeyword(query, query_lower, account_context) ==
    IF Truthy(account_context)
    THEN << <<"account_lookup", <<<<"account_id", account_context>>>> >> >>
    ELSE AccountFromWords(query, query_lower, Split(query), 1)

AccountCalls(query, query_lower, account_context) ==
    IF Contains(query_lower, "account") \/ Contains(query_lower, "plan")
          \/ Contains(query_lower, "tier")
    THEN IF Truthy(account_context)
         THEN << <<"account_lookup", <<<<"account_id", account_context>>>> >> >>
         ELSE AccountFromWords(query, query_lower, Split(query), 1)
    ELSE <<>>

\* the derivation with the ticket predicate evaluated before the invoice one
determine_tool_calls_tickets_first(query, account_context) ==
    LET query_lower == ToLower(query)
        tools == TicketCalls(query, query_lower, account_context)
                 \o InvoiceCalls(query, query_lower, account_context)
                 \o UsageCalls(query, query_lower, account_context)
                 \o AccountCalls(query, query_lower, account_context)
    IN  IF tools = <<>> /\ Truthy(account_context)
        THEN << <<"account_lookup", <<<<"account_id", account_context>>>> >> >>
        ELSE tools

\* the derivation without its fallback
determine_tool_calls_without_fallback(query, account_context) ==
    LET query_lower == ToLower(query)
    IN  InvoiceCalls(query, query_lower, account_context)
        \o TicketCalls(query, query_lower, account_context)
        \o UsageCalls(query, query_lower, account_context)
        \o AccountCalls(query, query_lower, account_context)

determine_tool_calls(query, account_context) ==
    LET query_lower == ToLower(query)
        tools == InvoiceCalls(query, query_lower, account_context)
                 \o TicketCalls(query, query_lower, account_context)
                 \o UsageCalls(query, query_lower, account_context)
                 \o AccountCalls(query, query_lower, account_context)
    IN  IF tools = <<>> /\ Truthy(account_context)
        THEN << <<"account_lookup", <<<<"account_id", account_context>>>> >> >>
        ELSE tools


(***************************************************************************)
(* The tool client (src/app/mcp_client.py).  The network's behaviour on    *)
(* one request is net: "ok" (HTTP 200 with the server's JSON), "http_500", *)
(* "unreachable" (ConnectionError) or "timeout".                           *)
(***************************************************************************)
AVAILABLE_TOOLS ==
    {"account_lookup", "invoice_status", "ticket_summary", "usage_report", "kb_search"}

MCP_REST_BASE_URL == "http://127.0.0.1:3001/tools"

NetOutcomes == {"ok", "http_500", "unreachable", "timeout"}

\* what the tool server answers a well-formed request with (response.json())
ToolFixture(tool_name, params) ==
    IF tool_name = "account_lookup"
    THEN [company |-> "Company_001", plan |-> "Enterprise", tier |-> "Gold",
          billing_cycle |-> "Annual", csm |-> "Dana Lee",
          renewal_date |-> "2026-01-15"]
    ELSE IF tool_name = "invoice_status"
    THEN [invoice_count |-> 3,
          summary |-> [total |-> 4500, paid |-> 3000, overdue |-> 1500, pending |-> 0]]
    ELSE IF tool_name = "ticket_summary"
    THEN [total_tickets |-> 5, open_tickets |-> 2, high_priority_open |-> 1,
          sla_risks |-> <<"T-104">>]
    ELSE IF tool_name = "usage_report"
    THEN [month |-> Get(params, "month"), api_calls |-> 125000,
          email_sends |-> 8400, storage_gb |-> 42,
          warnings |-> <<"API calls at 92% of plan limit">>]
    ELSE [results |-> <<>>]

call_mcp_tool(tool_name, params, net) ==
    IF tool_name \notin AVAILABLE_TOOLS
    THEN [error |-> "Unknown tool: " \o tool_name,
          explanation |-> "Available tools: account_lookup, invoice_status, "
                          \o "ticket_summary, usage_report, kb_search"]
    ELSE IF net = "ok" THEN ToolFixture(tool_name, params)
    ELSE IF net = "http_500"
    THEN [error |-> "HTTP 500", explanation |-> "Internal Server Error"]
    ELSE IF net = "unreachable"
    THEN [error |-> "MCP server not reachable",
          explanation |-> "Could not connect to " \o MCP_REST_BASE_URL
                          \o ". Ensure MCP server is running."]
    ELSE [error |-> "Request timeout",
          explanation |-> "Tool " \o tool_name \o " took too long to respond"]

(***************************************************************************)
(* NovaCRMGraph._format_tool_results.  Amounts of the fixture are whole    *)
(* numbers, so :.2f writes them with ".00".                                *)
(***************************************************************************)
RECURSIVE IntStr(_)
IntStr(n) ==
    IF n < 10 THEN Ch(DigitChars, n + 1)
    ELSE IntStr(n \div 10) \o Ch(DigitChars, (n % 10) + 1)

\* f"{n:,}"
RECURSIVE Thousands(_)
Thousands(n) ==
    IF n < 1000 THEN IntStr(n)
    ELSE Thousands(n \div 1000) \o "," \o ZFill(IntStr(n % 1000), 3)

\* f"{n:.2f}"
Fixed2(n) == IntStr(n) \o ".00"

\* result.get(key, default)
Field(result, key, default) == IF key \in DOMAIN result THEN result[key] ELSE default

RECURSIVE WarningLines(_)
WarningLines(warnings) ==
    IF warnings = <<>> THEN ""
    ELSE "  - " \o Head(warnings) \o "\n" \o WarningLines(Tail(warnings))

FormatFields(tool, result) ==
    IF tool = "account_lookup"
    THEN "- Company: " \o Field(result, "company", "N/A") \o "\n"
         \o "- Plan: " \o Field(result, "plan", "N/A")
         \o " (" \o Field(result, "tier", "N/A") \o " tier)\n"
         \o "- Billing: " \o Field(result, "billing_cycle", "N/A") \o "\n"
         \o "- CSM: " \o Field(result, "csm", "N/A") \o "\n"
         \o "- Renewal: " \o Field(result, "renewal_date", "N/A") \o "\n"
    ELSE IF tool = "invoice_status"
    THEN LET summary == Field(result, "summary", [none |-> 0])
         IN  "- Total Invoices: " \o IntStr(Field(result, "invoice_count", 0)) \o "\n"
             \o "- Total Amount: $" \o Fixed2(Field(summary, "total", 0)) \o "\n"
             \o "- Paid: $" \o Fixed2(Field(summary, "paid", 0)) \o "\n"
             \o "- Overdue: $" \o Fixed2(Field(summary, "overdue", 0)) \o "\n"
             \o "- Pending: $" \o Fixed2(Field(summary, "pending", 0)) \o "\n"
    ELSE IF tool = "ticket_summary"
    THEN "- Total Tickets: " \o IntStr(Field(result, "total_tickets", 0)) \o "\n"
         \o "- Open: " \o IntStr(Field(result, "open_tickets", 0)) \o "\n"
         \o "- High Priority Open: "
         \o IntStr(Field(result, "high_priority_open", 0)) \o "\n"
         \o (IF Field(result, "sla_risks", <<>>) # <<>>
             THEN "- SLA Risks: " \o IntStr(Len(Field(result, "sla_risks", <<>>)))
                  \o " ticket(s)\n"
             ELSE "")
    ELSE IF tool = "usage_report"
    THEN "- Month: " \o Field(result, "month", "N/A") \o "\n"
         \o "- API Calls: " \o Thousands(Field(result, "api_calls", 0)) \o "\n"
         \o "- Email Sends: " \o Thousands(Field(result, "email_sends", 0)) \o "\n"
         \o "- Storage: " \o Fixed2(Field(result, "storage_gb", 0)) \o " GB\n"
         \o (IF Field(result, "warnings", <<>>) # <<>>
             THEN "\nWarnings:\n" \o WarningLines(Field(result, "warnings", <<>>))
             ELSE "")
    ELSE ""

FormatItem(item) ==
    "\n## " \o Title(Replace(item.tool, "_", " ")) \o "\n"
    \o (IF "error" \in DOMAIN item.result
        THEN "Error: " \o item.result.error \o "\n"
        ELSE FormatFields(item.tool, item.result))

RECURSIVE format_tool_results(_)
format_tool_results(results) ==
    IF results = <<>> THEN ""
    ELSE FormatItem(Head(results)) \o format_tool_results(Tail(results))


(***************************************************************************)
(* The inputs of the model: the queries and account contexts invoke is     *)
(* called with, and what the external collaborators may answer.            *)
(***************************************************************************)
Queries ==
    { "Show data for A007 please",
      "Show account data for A007 please",
      "I think my account was breached",
      "Email jo@ex.co my october invoice and account plan",
      "Refund 555 123 4567@x.com",
      "What is <script>alert('xss')</script> NovaCRM?" }

AccountContexts == {NoneVal, "", "A001", "A1001"}

\* an oracle call returns text (ok) or raises an exception with message text
Returned(text) == [ok |-> TRUE, text |-> text]
Raised(message) == [ok |-> FALSE, text |-> message]

OracleErrors == {"Request timed out."}

ClassifierOutcomes ==
    {Returned(r) : r \in {"FAQ", "DataLookup", "Escalation", " DataLookup\n", "Billing"}}
    \cup {Raised(m) : m \in OracleErrors}

JustificationOutcomes ==
    {Returned(r) : r \in {"Account data is required.", "Use tool: account_lookup"}}
    \cup {Raised(m) : m \in OracleErrors}

SynthesisOutcomes ==
    {Returned(r) : r \in {"Invoices are issued monthly. Sources: billing_guide.md",
                          "You can definitely do that."}}
    \cup {Raised(m) : m \in OracleErrors}

Doc1 ==
    [metadata |-> [source |-> "data/kb/billing_guide.md"],
     page_content |-> "Invoices are issued on the first day of each month."]

Doc2 ==
    [metadata |-> [page |-> "2"],
     page_content |-> "Plans: Free, Pro, Enterprise."]

\* the retriever returns documents, get_retriever() raises (init_error) or
\* retrieve raises (search_error)
RetrieverOutcomes ==
    { [kind |-> "docs", documents |-> <<>>, text |-> ""],
      [kind |-> "docs", documents |-> <<Doc1, Doc2>>, text |-> ""],
      [kind |-> "init_error", documents |-> <<>>,
       text |-> "FAISS index not found. Please run scripts/build_index.py first."],
      [kind |-> "search_error", documents |-> <<>>, text |-> "Connection error."] }

(***************************************************************************)
(* The state of the program.                                               *)
(***************************************************************************)
VARIABLES
    pc,               \* where the running invocation stands: a node of the graph,
                      \* "idle", "END", "returned" or "raised"
    state,            \* the AssistantState of the running invocation
    stats,            \* OutputValidator.stats, kept across invocations
    retriever_ready,  \* NovaCRMGraph.retriever is not None
    result,           \* the dict the running invoke returned, once it has
    invocations,      \* the number of invoke calls made
    raw_query,        \* the query argument of the running invoke
    forwarded,        \* the query texts handed to the collaborators, in order
    trace,            \* the nodes that ran in this invocation, in order
    router_reply,     \* what the classification oracle did in this invocation
    safety_intent,    \* state.intent as the safety check left it
    tool_calls,       \* the candidates the tools node derived
    tool_results,     \* the results list of the tools node
    invoked,          \* the calls handed to call_mcp_tool, in order
    stats_at_invoke,  \* stats when the running invoke was called
    outcomes,         \* what the collaborators called in this invocation did, in order
    workers,          \* the threads running validate_answer on one OutputValidator
    answer_validation, \* the dict validate_answer returned in this invocation, once called
    direct_call       \* a guardrail or derivation function called on its own: its name,
                      \* its arguments and, once it has returned, its result

vars ==
    << pc, state, stats, retriever_ready, result, invocations, raw_query, forwarded,
       trace, router_reply, safety_intent, tool_calls, tool_results, invoked,
       stats_at_invoke, outcomes, workers, answer_validation, direct_call >>

Intents == {"FAQ", "DataLookup", "Escalation"}

InitialState(query, account_context) ==
    [intent |-> NoneVal, query |-> query, answer |-> NoneVal, evidence |-> <<>>,
     errors |-> <<>>, account_context |-> account_context]

NoResult ==
    [query |-> NoneVal, intent |-> NoneVal, answer |-> NoneVal, evidence |-> <<>>,
     errors |-> <<>>]

NoReply == Raised("")

\* one entry of outcomes: the collaborator called, and whether it returned
Outcome(by, ok) == [by |-> by, ok |-> ok]

\* workers while no thread runs validate_answer
NoWorkers == <<>>

\* validation before validate_answer has returned
NoValidation == <<>>

\* direct_call while no function is called on its own
NoCall == <<>>

Init ==
    /\ pc = "idle"
    /\ state = InitialState("", NoneVal)
    /\ stats = [total |-> 0, valid |-> 0, invalid |-> 0, total_evidence |-> 0,
                total_answer_length |-> 0]
    /\ retriever_ready = FALSE
    /\ result = NoResult
    /\ invocations = 0
    /\ raw_query = ""
    /\ forwarded = <<>>
    /\ trace = <<>>
    /\ router_reply = NoReply
    /\ safety_intent = NoneVal
    /\ tool_calls = <<>>
    /\ tool_results = <<>>
    /\ invoked = <<>>
    /\ stats_at_invoke = stats
    /\ outcomes = <<>>
    /\ workers = NoWorkers
    /\ answer_validation = NoValidation
    /\ direct_call = NoCall

(***************************************************************************)
(* The graph (NovaCRMGraph._build_graph): the node that runs after node.   *)
(***************************************************************************)
\* the conditional edge with the FAQ and DataLookup targets exchanged
route_query_swapped(st) ==
    IF st.intent = "FAQ" THEN "tools"
    ELSE IF st.intent = "DataLookup" THEN "retrieve"
    ELSE IF st.intent = "Escalation" THEN "escalate"
    ELSE "raised"

\* _route_query and the mapping of the conditional edge; an intent that is no
\* key of the mapping makes the graph raise
route_query(st) ==
    IF st.intent = "FAQ" THEN "retrieve"
    ELSE IF st.intent = "DataLookup" THEN "tools"
    ELSE IF st.intent = "Escalation" THEN "escalate"
    ELSE "raised"
\* the graph with the escalate node wired to validate instead of END
NextNodeEscalateValidated(node, st) ==
    IF node = "safety_check" THEN "router"
    ELSE IF node = "router" THEN route_query(st)
    ELSE IF node \in {"retrieve", "tools"} THEN "synthesize"
    ELSE IF node \in {"synthesize", "escalate"} THEN "validate"
    ELSE "END"

NextNode(node, st) ==
    IF node = "safety_check" THEN "router"
    ELSE IF node = "router" THEN route_query(st)
    ELSE IF node \in {"retrieve", "tools"} THEN "synthesize"
    ELSE IF node = "synthesize" THEN "validate"
    ELSE "END"

\* NovaCRMGraph.invoke up to the first node
Invoke(query, account_context) ==
    /\ pc \in {"idle", "returned"}
    /\ invocations < MaxInvocations
    /\ invocations' = invocations + 1
    /\ state' = InitialState(query, account_context)
    /\ raw_query' = query
    /\ forwarded' = <<>>
    /\ trace' = <<>>
    /\ router_reply' = NoReply
    /\ safety_intent' = NoneVal
    /\ tool_calls' = <<>>
    /\ tool_results' = <<>>
    /\ invoked' = <<>>
    /\ stats_at_invoke' = stats
    /\ result' = NoResult
    /\ pc' = "safety_check"
    /\ outcomes' = <<>>
    /\ answer_validation' = NoValidation
    /\ UNCHANGED <<stats, retriever_ready, workers, direct_call>>

(***************************************************************************)
(* _safety_check_node                                                      *)
(***************************************************************************)
SensitiveUpdate(st, sensitivity_check) ==
    IF sensitivity_check.is_sensitive /\ sensitivity_check.should_escalate
    THEN [st EXCEPT
            !.intent = "Escalation",
            !.evidence = Append(@, "safety:sensitive_topic_detected:"
                                   \o Join(sensitivity_check.matched_topics, ","))]
    ELSE st
PiiUpdate(st, pii_check) ==
    IF pii_check.has_pii
    THEN [st EXCEPT
            !.query = pii_check.redacted_text,
            !.evidence = Append(@, "safety:pii_redacted:"
                                   \o Join(pii_check.pii_types, ","))]
    ELSE st

SafetyCheckNode ==
    /\ pc = "safety_check"
    /\ \E sensitivity_check \in check_sensitive_content(state.query) :
          state' = PiiUpdate(SensitiveUpdate(state, sensitivity_check),
                             check_pii_exposure(state.query))
    /\ safety_intent' = state'.intent
    /\ trace' = Append(trace, "safety_check")
    /\ pc' = NextNode("safety_check", state')
    /\ UNCHANGED <<stats, retriever_ready, result, invocations, raw_query, forwarded,
                   router_reply, tool_calls, tool_results, invoked, stats_at_invoke, outcomes, workers, direct_call,
                   answer_validation>>

(***************************************************************************)
(* _router_node                                                            *)
(***************************************************************************)
\* the router without its check of the reply against the three intents
ClassifiedIntentUnchecked(reply) == Strip(reply)

\* intent = result.strip(), replaced by "Escalation" when it is no intent
ClassifiedIntent(reply) ==
    IF Strip(reply) \in {"FAQ", "DataLookup", "Escalation"}
    THEN Strip(reply)
    ELSE "Escalation"
\* the router leaving alone an Escalation the safety check has written
RouterUpdateKeepsEscalation(st, outcome) ==
    IF st.intent = "Escalation" THEN st
    ELSE IF outcome.ok
    THEN [st EXCEPT !.intent = ClassifiedIntent(outcome.text)]
    ELSE [st EXCEPT !.errors = Append(@, "Router error: " \o outcome.text),
                    !.intent = "Escalation"]

\* the router falling back to Escalation without recording the failure
RouterUpdateWithoutError(st, outcome) ==
    IF outcome.ok
    THEN [st EXCEPT !.intent = ClassifiedIntent(outcome.text)]
    ELSE [st EXCEPT !.intent = "Escalation"]

RouterUpdate(st, outcome) ==
    IF outcome.ok
    THEN [st EXCEPT !.intent = ClassifiedIntent(outcome.text)]
    ELSE [st EXCEPT !.errors = Append(@, "Router error: " \o outcome.text),
                    !.intent = "Escalation"]

RouterNode ==
    /\ pc = "router"
    /\ \E outcome \in ClassifierOutcomes :
          /\ router_reply' = outcome
          /\ outcomes' = Append(outcomes, Outcome("classification_oracle", outcome.ok))
          /\ state' = RouterUpdate(state, outcome)
    /\ forwarded' = Append(forwarded, [to |-> "classification_oracle", text |-> state.query])
    /\ trace' = Append(trace, "router")
    /\ pc' = NextNode("router", state')
    /\ UNCHANGED <<stats, retriever_ready, result, invocations, raw_query,
                   safety_intent, tool_calls, tool_results, invoked, stats_at_invoke, workers, direct_call,
                   answer_validation>>


(***************************************************************************)
(* _retrieve_node, with KnowledgeBaseRetriever.format_results              *)
(***************************************************************************)
\* Path(source).name
BaseName(source) ==
    IF Contains(source, "/")
    THEN SubSeq(source,
                1 + (CHOOSE i \in 1..Len(source) :
                        Ch(source, i) = "/"
                        /\ \A j \in (i + 1)..Len(source) : Ch(source, j) # "/"),
                Len(source))
    ELSE source

\* doc.metadata.get('source', 'unknown')
SourceOf(doc) == Field(doc.metadata, "source", "unknown")

DocTags(documents) ==
    [i \in 1..Len(documents) |-> "doc:" \o BaseName(SourceOf(documents[i]))]

FormattedDocs(documents) ==
    [i \in 1..Len(documents) |->
        "[Document " \o IntStr(i) \o " - "
        \o (IF SourceOf(documents[i]) # "unknown"
            THEN BaseName(SourceOf(documents[i]))
            ELSE SourceOf(documents[i]))
        \o "]\n" \o documents[i].page_content]

format_results(documents) == [context |-> Join(FormattedDocs(documents), "\n\n")]

\* the retrieve node recording a failure without the fallback sentence
RetrieveUpdateWithoutFallback(st, outcome) ==
    IF outcome.kind = "docs"
    THEN [st EXCEPT !.evidence = @ \o DocTags(outcome.documents),
                    !.answer = format_results(outcome.documents).context]
    ELSE [st EXCEPT !.errors = Append(@, "Retrieval error: " \o outcome.text)]

RetrieveUpdate(st, outcome) ==
    IF outcome.kind = "docs"
    THEN [st EXCEPT !.evidence = @ \o DocTags(outcome.documents),
                    !.answer = format_results(outcome.documents).context]
    ELSE [st EXCEPT
            !.errors = Append(@, "Retrieval error: " \o outcome.text),
            !.answer = "Knowledge base retrieval failed. Please try rephrasing your question."]

RetrieveNode ==
    /\ pc = "retrieve"
    /\ \E outcome \in RetrieverOutcomes :
          /\ outcome.kind = "init_error" => ~retriever_ready
          /\ retriever_ready' = (retriever_ready \/ outcome.kind # "init_error")
          /\ forwarded' = IF outcome.kind = "init_error"
                          THEN forwarded
                          ELSE Append(forwarded, [to |-> "retriever", text |-> state.query])
          /\ state' = RetrieveUpdate(state, outcome)
          /\ outcomes' = Append(outcomes, Outcome("retriever", outcome.kind = "docs"))
    /\ trace' = Append(trace, "retrieve")
    /\ pc' = NextNode("retrieve", state')
    /\ UNCHANGED <<stats, result, invocations, raw_query, router_reply, safety_intent,
                   tool_calls, tool_results, invoked, stats_at_invoke, workers, direct_call,
                   answer_validation>>

(***************************************************************************)
(* _tools_node                                                             *)
(***************************************************************************)
\* str(list(params.keys()))
KeysRepr(params) ==
    "[" \o Join([i \in 1..Len(params) |-> "'" \o params[i][1] \o "'"], ", ") \o "]"

ToolTag(tool_name, params) == "tool:" \o tool_name \o ":" \o KeysRepr(params)
\* the loop body calling the tool whatever validate_tool_params says
ToolStepUnvalidated(call, net) ==
    [tool |-> call[1], params |-> call[2], invoked |-> TRUE,
     result |-> call_mcp_tool(call[1], call[2], net)]

\* one pass of the loop body for the candidate call: the entry appended to
\* results, and whether call_mcp_tool was called
ToolStep(call, net) ==
    LET tool_name == call[1]
        params == call[2]
        param_validation == validate_tool_params(tool_name, params)
    IN  IF ~param_validation.is_valid
        THEN [tool |-> tool_name, params |-> params, invoked |-> FALSE,
              result |-> [error |-> "Invalid parameters: "
                                    \o Join(param_validation.errors, ", ")]]
        ELSE [tool |-> tool_name, params |-> params, invoked |-> TRUE,
              result |-> call_mcp_tool(tool_name, params, net)]

\* the loop over the candidates; nets[i] is the network's behaviour should
\* candidate i be sent
ToolSteps(calls, nets) == [i \in 1..Len(calls) |-> ToolStep(calls[i], nets[i])]

WasInvoked(step) == step.invoked

InvokedOf(steps) ==
    LET sent == SelectSeq(steps, WasInvoked)
    IN  [i \in 1..Len(sent) |-> <<sent[i].tool, sent[i].params>>]
\* the loop tagging only the calls whose result is no error
ToolTagsOfSuccesses(steps) ==
    LET fine(step) == step.invoked /\ "error" \notin DOMAIN step.result
        sent == SelectSeq(steps, fine)
    IN  [i \in 1..Len(sent) |-> ToolTag(sent[i].tool, sent[i].params)]

ToolTags(steps) ==
    LET sent == InvokedOf(steps)
    IN  [i \in 1..Len(sent) |-> ToolTag(sent[i][1], sent[i][2])]

ResultsOf(steps) ==
    [i \in 1..Len(steps) |->
        [tool |-> steps[i].tool, params |-> steps[i].params, result |-> steps[i].result]]

\* justification[:100]
Truncated(text) == SubSeq(text, 1, Min(Len(text), 100))

ToolsUpdate(st, justification, steps) ==
    IF justification.ok
    THEN [st EXCEPT
            !.evidence = Append(@, "tool_justification:" \o Truncated(justification.text))
                         \o ToolTags(steps),
            !.answer = format_tool_results(ResultsOf(steps))]
    ELSE [st EXCEPT
            !.errors = Append(@, "Tools error: " \o justification.text),
            !.answer = "Unable to retrieve data. Please verify account information."]

ToolsNode ==
    /\ pc = "tools"
    /\ \E justification \in JustificationOutcomes :
          /\ outcomes' = Append(outcomes, Outcome("justification_oracle", justification.ok))
          /\ IF justification.ok
             THEN LET calls == determine_tool_calls(state.query, state.account_context)
                  IN  \E nets \in [1..Len(calls) -> NetOutcomes] :
                         LET steps == ToolSteps(calls, nets)
                         IN  /\ tool_calls' = calls
                             /\ tool_results' = ResultsOf(steps)
                             /\ invoked' = InvokedOf(steps)
                             /\ state' = ToolsUpdate(state, justification, steps)
                             /\ forwarded' =
                                   forwarded
                                   \o << [to |-> "justification_oracle", text |-> state.query],
                                         [to |-> "tool_derivation", text |-> state.query] >>
             ELSE /\ state' = ToolsUpdate(state, justification, <<>>)
                  /\ forwarded' = Append(forwarded, [to |-> "justification_oracle",
                                                     text |-> state.query])
                  /\ UNCHANGED <<tool_calls, tool_results, invoked>>
    /\ trace' = Append(trace, "tools")
    /\ pc' = NextNode("tools", state')
    /\ UNCHANGED <<stats, retriever_ready, result, invocations, raw_query,
                   router_reply, safety_intent, stats_at_invoke, workers, direct_call,
                   answer_validation>>

(***************************************************************************)
(* _synthesize_node                                                        *)
(***************************************************************************)
\* f"{state.get('answer', '')}": None is written "None"
Str(x) == IF x = NoneVal THEN "None" ELSE x

EvidenceList(evidence) ==
    Join([i \in 1..Len(evidence) |-> "- " \o evidence[i]], "\n")

WithEvidenceSection(st) ==
    [st EXCEPT !.answer = Str(@) \o "\n\n**Evidence:**\n" \o EvidenceList(st.evidence)]

\* outcome is what the synthesis oracle does; it is called for FAQ only
SynthesizeUpdate(st, outcome) ==
    IF st.intent = "FAQ"
    THEN IF outcome.ok
         THEN WithEvidenceSection([st EXCEPT !.answer = outcome.text])
         ELSE [st EXCEPT !.errors = Append(@, "Synthesis error: " \o outcome.text)]
    ELSE WithEvidenceSection(st)

SynthesizeNode ==
    /\ pc = "synthesize"
    /\ IF state.intent = "FAQ"
       THEN /\ \E outcome \in SynthesisOutcomes :
                  /\ state' = SynthesizeUpdate(state, outcome)
                  /\ outcomes' = Append(outcomes, Outcome("synthesis_oracle", outcome.ok))
            /\ forwarded' = Append(forwarded, [to |-> "synthesis_oracle",
                                               text |-> state.query])
       ELSE /\ state' = SynthesizeUpdate(state, NoReply)
            /\ UNCHANGED <<forwarded, outcomes>>
    /\ trace' = Append(trace, "synthesize")
    /\ pc' = NextNode("synthesize", state')
    /\ UNCHANGED <<stats, retriever_ready, result, invocations, raw_query, router_reply,
                   safety_intent, tool_calls, tool_results, invoked, stats_at_invoke, workers, direct_call,
                   answer_validation>>

(***************************************************************************)
(* _escalate_node                                                          *)
(***************************************************************************)
escalation_message(query) ==
    "\nI understand you need assistance with: \"" \o query \o "\"\n\n"
    \o "This request requires specialized support from our team. "
    \o "Here's what you can do:\n\n"
    \o "**Immediate Actions:**\n"
    \o "- Email: support@novacrm.com\n"
    \o "- Phone: 1-800-NOVA-CRM\n"
    \o "- Submit a ticket through your account portal\n\n"
    \o "**What to Include:**\n"
    \o "- Your account ID or company name\n"
    \o "- Detailed description of your request\n"
    \o "- Any relevant dates or transaction IDs\n"
    \o "- Preferred contact method\n\n"
    \o "**Expected Response Time:**\n"
    \o "- High priority: 2 hours\n"
    \o "- Standard: 24 hours\n\n"
    \o "Our team will reach out shortly to assist you further.\n"

\* the escalate node replacing the evidence collected so far by its own tag
EscalateUpdateFreshEvidence(st) ==
    [st EXCEPT !.answer = escalation_message(st.query),
               !.evidence = <<"escalated:human_support_required">>]

EscalateUpdate(st) ==
    [st EXCEPT !.answer = escalation_message(st.query),
               !.evidence = Append(@, "escalated:human_support_required")]

EscalateNode ==
    /\ pc = "escalate"
    /\ state' = EscalateUpdate(state)
    /\ trace' = Append(trace, "escalate")
    /\ pc' = NextNode("escalate", state')
    /\ UNCHANGED <<stats, retriever_ready, result, invocations, raw_query, forwarded,
                   router_reply, safety_intent, tool_calls, tool_results, invoked,
                   stats_at_invoke, outcomes, workers, direct_call,
                   answer_validation>>

(***************************************************************************)
(* _validate_node                                                          *)
(***************************************************************************)
Disclaimer ==
    "\n\n*Note: This response may be incomplete. Please contact support for assistance.*"

\* the validate node sanitizing only the answers that passed validate_answer
ValidateUpdateUnsanitizedInvalid(st, validation) ==
    LET evidence_validation == validate_evidence(st.evidence)
        intent_match == check_intent_answer_match(st.intent, st.answer, st.evidence)
    IN  [st EXCEPT
            !.errors = @ \o (IF validation.is_valid THEN <<>> ELSE validation.warnings)
                         \o (IF evidence_validation.is_valid
                             THEN <<>> ELSE evidence_validation.warnings)
                         \o (IF intent_match
                             THEN <<>> ELSE <<"Answer-intent mismatch detected">>),
            !.answer = IF validation.is_valid
                       THEN sanitize_output(st.answer)
                       ELSE st.answer \o Disclaimer]

\* the node reads answer, intent and evidence once, at its start; validation
\* is what validate_answer returned for them
ValidateUpdate(st, validation) ==
    LET evidence_validation == validate_evidence(st.evidence)
        intent_match == check_intent_answer_match(st.intent, st.answer, st.evidence)
    IN  [st EXCEPT
            !.errors = @ \o (IF validation.is_valid THEN <<>> ELSE validation.warnings)
                         \o (IF evidence_validation.is_valid
                             THEN <<>> ELSE evidence_validation.warnings)
                         \o (IF intent_match
                             THEN <<>> ELSE <<"Answer-intent mismatch detected">>),
            !.answer = sanitize_output(IF validation.is_valid
                                       THEN st.answer
                                       ELSE st.answer \o Disclaimer)]

\* re.search(pattern, None) raises TypeError, which nothing catches
ValidateNode ==
    /\ pc = "validate"
    /\ IF state.answer = NoneVal
       THEN /\ pc' = "raised"
            /\ UNCHANGED <<state, stats, answer_validation>>
       ELSE /\ answer_validation' =
                  validate_answer(state.answer, state.intent, state.evidence)
            /\ stats' = StatsAfter(stats, answer_validation'.is_valid,
                                   state.answer, state.evidence)
            /\ state' = ValidateUpdate(state, answer_validation')
            /\ pc' = NextNode("validate", state')
    /\ trace' = Append(trace, "validate")
    /\ UNCHANGED <<retriever_ready, result, invocations, raw_query, forwarded,
                   router_reply, safety_intent, tool_calls, tool_results, invoked,
                   stats_at_invoke, outcomes, workers, direct_call>>

(***************************************************************************)
(* The end of NovaCRMGraph.invoke: the dict it returns.                    *)
(***************************************************************************)
Return ==
    /\ pc = "END"
    /\ result' = [query |-> state.query, intent |-> state.intent,
                  answer |-> state.answer, evidence |-> state.evidence,
                  errors |-> state.errors]
    /\ pc' = "returned"
    /\ UNCHANGED <<state, stats, retriever_ready, invocations, raw_query, forwarded,
                   trace, router_reply, safety_intent, tool_calls, tool_results,
                   invoked, stats_at_invoke, outcomes, workers, direct_call,
                   answer_validation>>

Next ==
    \/ \E query \in Queries, account_context \in AccountContexts :
          Invoke(query, account_context)
    \/ SafetyCheckNode
    \/ RouterNode
    \/ RetrieveNode
    \/ ToolsNode
    \/ SynthesizeNode
    \/ EscalateNode
    \/ ValidateNode
    \/ Return

Spec == Init /\ [][Next]_vars


(***************************************************************************)
(* Properties of the pipeline.                                             *)
(***************************************************************************)
\* node has run in the running invocation
Ran(node) == \E i \in 1..Len(trace) : trace[i] = node

HasPrefixed(entries, prefix) == \E i \in 1..Len(entries) : StartsWith(entries[i], prefix)

IsPrefix(a, b) == Len(a) <= Len(b) /\ SubSeq(b, 1, Len(a)) = a

\* the tools node got past the justification oracle and ran its loop
ToolLoopRan == \E i \in 1..Len(forwarded) : forwarded[i].to = "tool_derivation"

PassesValidation(call) == validate_tool_params(call[1], call[2]).is_valid

IsToolTag(entry) == StartsWith(entry, "tool:")

Nodes == {"safety_check", "router", "retrieve", "tools", "synthesize", "escalate", "validate"}

\* C1: whatever the classification, justification and synthesis oracles, the
\* retriever and the tool invoker do (return or fail), an invocation never
\* raises; no node is due a second time, so the invocation ends after at most
\* one run of each node; and what it returns has an intent among FAQ,
\* DataLookup and Escalation and an answer that is a string.
C1_AlwaysReturnsCompleteResult ==
    /\ pc # "raised"
    /\ pc \in Nodes => ~Ran(pc)
    /\ pc = "returned" => result.intent \in Intents /\ result.answer # NoneVal

\* an invocation that returned after its retriever and its synthesis oracle failed
C1_ReturnedAfterFailures ==
    /\ pc = "returned"
    /\ HasPrefixed(result.errors, "Retrieval error:")
    /\ HasPrefixed(result.errors, "Synthesis error:")
    /\ result.intent = "FAQ"

\* C2: when a PII pattern matches the query, every text handed to a later
\* component is the redacted query, in which the matches of that pattern have
\* been replaced by the pattern's placeholder [REDACTED_<TYPE>], and no matched
\* substring of the raw query is handed on.
C2_OnlyRedactedTextForwarded ==
    \A k \in 1..Len(pii_patterns) :
        HasMatch(pii_patterns[k].pattern, raw_query) =>
            \A i \in 1..Len(forwarded) :
                /\ forwarded[i].text = state.query
                /\ Contains(forwarded[i].text, Placeholder(pii_patterns[k].type))
                /\ \A p \in 1..Len(raw_query) :
                      LET e == MatchAt(pii_patterns[k].pattern, raw_query, p)
                      IN  e > p => ~Contains(forwarded[i].text, SubSeq(raw_query, p, e - 1))

\* C3: a query on which the sensitive-topic check reports should_escalate is
\* returned with intent Escalation, whatever the classification oracle replies.
C3_SensitiveQueryEscalates ==
    (pc = "returned" /\ \E check \in check_sensitive_content(raw_query) : check.should_escalate)
        => result.intent = "Escalation"

EscalatedTag == "escalated:human_support_required"

\* C5: when the router sets intent Escalation, neither retrieve, tools,
\* synthesize nor validate runs and the validator's counters stay as they
\* were; once escalate has run the answer is the escalation template, the tag
\* escalated:human_support_required is the last evidence entry and occurs
\* once, errors holds what the router left, and the invocation ends there.
C5_EscalationBypassesTheRest ==
    (Ran("router") /\ state.intent = "Escalation") =>
        /\ \A node \in {"retrieve", "tools", "synthesize", "validate"} : ~Ran(node)
        /\ stats = stats_at_invoke
        /\ Ran("escalate") =>
              /\ state.answer = escalation_message(state.query)
              /\ Len(state.evidence) > 0
              /\ state.evidence[Len(state.evidence)] = EscalatedTag
              /\ Cardinality({i \in 1..Len(state.evidence) :
                                 state.evidence[i] = EscalatedTag}) = 1
              /\ state.errors = IF router_reply.ok
                                THEN <<>>
                                ELSE <<"Router error: " \o router_reply.text>>
              /\ pc \in {"END", "returned"}
        /\ pc = "returned" =>
              /\ result.answer = state.answer
              /\ result.evidence = state.evidence
              /\ result.errors = state.errors

\* an escalated invocation that returned, with the safety tag before the
\* escalation tag
C5_EscalatedAndReturned ==
    /\ pc = "returned"
    /\ result.intent = "Escalation"
    /\ Len(result.evidence) = 2
    /\ result.evidence[2] = EscalatedTag
    /\ stats.total = 0

\* the nodes of an invocation with the given intent, in the order of the graph
StagePath(intent) ==
    IF intent = "FAQ"
    THEN <<"safety_check", "router", "retrieve", "synthesize", "validate">>
    ELSE IF intent = "DataLookup"
    THEN <<"safety_check", "router", "tools", "synthesize", "validate">>
    ELSE <<"safety_check", "router", "escalate">>

\* C6: the nodes run in the order safety_check, router, then the one of
\* retrieve, tools and escalate that the intent written by the router selects,
\* then synthesize and validate after retrieve or tools; no node runs twice,
\* none runs after router before router has written the intent, the node due
\* next is the next one of that order, and an invocation that returned ran the
\* whole order of its intent.
C6_StagesRunInOrder ==
    /\ \E intent \in Intents : IsPrefix(trace, StagePath(intent))
    /\ Len(trace) >= 2 =>
          /\ state.intent \in Intents
          /\ IsPrefix(trace, StagePath(state.intent))
          /\ pc \in Nodes => pc = StagePath(state.intent)[Len(trace) + 1]
    /\ (Len(trace) < 2 /\ pc \in Nodes) => pc = StagePath("FAQ")[Len(trace) + 1]
    /\ pc \in {"END", "returned"} => trace = StagePath(state.intent)

\* a DataLookup invocation that returned after its five nodes
C6_DataLookupPathRan ==
    /\ pc = "returned"
    /\ result.intent = "DataLookup"
    /\ trace = <<"safety_check", "router", "tools", "synthesize", "validate">>

\* C7: in the loop of the tools node a candidate that fails
\* validate_tool_params is not handed to call_mcp_tool and its result is
\* {error: "Invalid parameters: <errors joined by ', '>"}; the calls handed to
\* call_mcp_tool are the candidates that pass, each once, in derivation order.
C7_InvalidCandidatesNeverInvoked ==
    ToolLoopRan =>
        /\ Len(tool_results) = Len(tool_calls)
        /\ \A i \in 1..Len(tool_calls) :
              LET validation == validate_tool_params(tool_calls[i][1], tool_calls[i][2])
              IN  ~validation.is_valid =>
                     /\ tool_results[i].result =
                           [error |-> "Invalid parameters: "
                                      \o Join(validation.errors, ", ")]
                     /\ \A j \in 1..Len(invoked) : invoked[j] # tool_calls[i]
        /\ invoked = SelectSeq(tool_calls, PassesValidation)

\* the loop ran over a valid invoice_status candidate and an account_lookup
\* candidate whose account id is refused
C7_InvalidSkippedValidInvoked ==
    /\ ToolLoopRan
    /\ Len(tool_calls) = 2
    /\ invoked = << <<"invoice_status",
                      << <<"account_id", "A1001">>, <<"period", "2025-10">> >> >> >>
    /\ tool_results[2].result =
          [error |-> "Invalid parameters: Invalid account_id format: A1001"]

\* C8: when a call handed to call_mcp_tool comes back with an error-shaped
\* result, the later candidates that pass validation are still handed to
\* call_mcp_tool, and the evidence holds one tool:<toolName>: tag per call
\* handed over, in order, whether its result is an error or not.
C8_ToolErrorsDoNotStopTheLoop ==
    ToolLoopRan =>
        LET tags == SelectSeq(state.evidence, IsToolTag)
        IN  /\ Len(tags) = Len(invoked)
            /\ \A j \in 1..Len(invoked) :
                  StartsWith(tags[j], "tool:" \o invoked[j][1] \o ":")
            /\ \A i \in 1..Len(tool_calls) :
                  (PassesValidation(tool_calls[i]) /\ "error" \in DOMAIN tool_results[i].result)
                      => \A j \in (i + 1)..Len(tool_calls) :
                            PassesValidation(tool_calls[j]) =>
                               /\ \E k \in 1..Len(invoked) : invoked[k] = tool_calls[j]
                               /\ tool_results[j].result \in
                                     {call_mcp_tool(tool_calls[j][1], tool_calls[j][2], net) :
                                         net \in NetOutcomes}

\* two calls were handed over, the first failed, the second succeeded, and
\* both are tagged
C8_SecondCallAfterFailedFirst ==
    /\ ToolLoopRan
    /\ Len(invoked) = 2
    /\ "error" \in DOMAIN tool_results[1].result
    /\ "error" \notin DOMAIN tool_results[2].result
    /\ Len(SelectSeq(state.evidence, IsToolTag)) = 2

C10_A007DerivedWithoutKeyword ==
    (ToolLoopRan /\ raw_query = "Show data for A007 please" /\ state.account_context = NoneVal)
        => \E i \in 1..Len(tool_calls) :
              tool_calls[i] = <<"account_lookup", <<<<"account_id", "A007">>>> >>

\* C10: without account context the derivation yields no candidate for "Show
\* data for A007 please", which holds none of the words account, plan and
\* tier, and yields exactly account_lookup with {account_id: "A007"} for "Show
\* account data for A007 please".
C10_A007DerivedOnlyWithKeyword ==
    (ToolLoopRan /\ state.account_context = NoneVal) =>
        /\ raw_query = "Show data for A007 please" => tool_calls = <<>>
        /\ raw_query = "Show account data for A007 please" =>
              tool_calls = << <<"account_lookup", <<<<"account_id", "A007">>>> >> >>

\* the derivation ran on "Show data for A007 please" without account context
C10_DerivationRanOnA007 ==
    /\ ToolLoopRan
    /\ raw_query = "Show data for A007 please"
    /\ state.account_context = NoneVal
    /\ tool_calls = <<>>
    /\ invoked = <<>>

\* the tag the evidence grammar gives an invoked tool: the parameter keys
\* joined by commas
CommaJoinedTag(call) == "tool:" \o call[1] \o ":" \o Join(Keys(call[2]), ",")

\* C11: once the tools node has run its loop, the tool: tags in evidence are,
\* in order, tool:<toolName>:<parameter keys joined by commas> of the calls
\* handed to the tool invoker.
C11_ToolTagsAreCommaJoined ==
    ToolLoopRan =>
        LET tags == SelectSeq(state.evidence, IsToolTag)
        IN  /\ Len(tags) = Len(invoked)
            /\ \A i \in 1..Len(tags) : tags[i] = CommaJoinedTag(invoked[i])

EndsWith(s, suffix) == OccursAt(s, suffix, Len(s) - Len(suffix) + 1)

\* the Evidence section of an answer: its heading and one line per tag
EvidenceSection(evidence) == "\n\n**Evidence:**\n" \o EvidenceList(evidence)

\* C12: whatever the oracles did, the answer the synthesize node hands to the
\* validate node (intent FAQ or DataLookup) is a main body followed by the
\* Evidence section listing every tag collected so far, one per line, in order.
C12_AnswerEndsWithEvidenceSection ==
    pc = "validate" =>
        /\ state.intent \in {"FAQ", "DataLookup"}
        /\ EndsWith(state.answer, EvidenceSection(state.evidence))

\* the collaborator by was called in this invocation and failed
Failed(by) == \E i \in 1..Len(outcomes) : outcomes[i].by = by /\ ~outcomes[i].ok

CountOf(entries, prefix) ==
    Cardinality({i \in 1..Len(entries) : StartsWith(entries[i], prefix)})

\* the context blobs the retrieve node can store in answer
RetrievedContexts ==
    {format_results(outcome.documents).context :
        outcome \in {o \in RetrieverOutcomes : o.kind = "docs"}}

\* C13: when the synthesis oracle call has failed in an FAQ invocation, the
\* answer handed to the validate node is not the raw retrieved context, errors
\* holds exactly one synthesis error entry, and intent is still FAQ.
C13_SynthesisFailureDowngradesAnswer ==
    (pc = "validate" /\ Failed("synthesis_oracle")) =>
        /\ state.answer \notin RetrievedContexts
        /\ CountOf(state.errors, "Synthesis error:") = 1
        /\ state.intent = "FAQ"

RetrievalFallback ==
    "Knowledge base retrieval failed. Please try rephrasing your question."

\* C14: a step of the retrieve node in which the retriever fails sets answer to
\* the fixed fallback sentence, appends exactly one entry (a retrieval error)
\* to errors, leaves intent = FAQ and hands over to the synthesize node; and an
\* invocation whose retriever failed returns only after the synthesize and
\* validate nodes have run, with intent FAQ.
C14_RetrieverFailureFallsBackAndContinues ==
    /\ [][(pc = "retrieve" /\ Failed("retriever")') =>
            /\ state'.answer = RetrievalFallback
            /\ Len(state'.errors) = Len(state.errors) + 1
            /\ IsPrefix(state.errors, state'.errors)
            /\ StartsWith(state'.errors[Len(state'.errors)], "Retrieval error:")
            /\ state.intent = "FAQ" /\ state'.intent = "FAQ"
            /\ pc' = "synthesize"]_vars
    /\ []((pc = "returned" /\ Failed("retriever")) =>
            /\ Ran("synthesize") /\ Ran("validate")
            /\ result.intent = "FAQ")

C14_ReturnedAfterRetrieverFailure ==
    /\ pc = "returned"
    /\ Failed("retriever")
    /\ Ran("validate")
    /\ result.intent = "FAQ"
    /\ CountOf(result.errors, "Retrieval error:") = 1

\* C15 as stated: once the router has run, intent is the oracle's reply when
\* the reply is exactly FAQ, DataLookup or Escalation; it is Escalation with no
\* router error in errors for any other reply; it is Escalation with exactly
\* one router error in errors when the oracle call failed; it is never unset.
C15_IntentIsTheExactReply ==
    Ran("router") =>
        /\ state.intent # NoneVal
        /\ (router_reply.ok /\ router_reply.text \in Intents) =>
              state.intent = router_reply.text
        /\ (router_reply.ok /\ router_reply.text \notin Intents) =>
              /\ state.intent = "Escalation"
              /\ CountOf(state.errors, "Router error:") = 0
        /\ ~router_reply.ok =>
              /\ state.intent = "Escalation"
              /\ CountOf(state.errors, "Router error:") = 1

\* C15, amended: the reply is read after stripping its surrounding whitespace.
\* Once the router has run, intent is the stripped reply when that is exactly
\* FAQ, DataLookup or Escalation, with no router error; Escalation with no
\* router error for any other reply; Escalation with exactly one router error
\* when the oracle call failed; and never unset.
C15_IntentIsTheStrippedReply ==
    Ran("router") =>
        /\ state.intent \in Intents
        /\ (router_reply.ok /\ Strip(router_reply.text) \in Intents) =>
              /\ state.intent = Strip(router_reply.text)
              /\ CountOf(state.errors, "Router error:") = 0
        /\ (router_reply.ok /\ Strip(router_reply.text) \notin Intents) =>
              /\ state.intent = "Escalation"
              /\ CountOf(state.errors, "Router error:") = 0
        /\ ~router_reply.ok =>
              /\ state.intent = "Escalation"
              /\ CountOf(state.errors, "Router error:") = 1
              /\ state.errors[1] = "Router error: " \o router_reply.text

C15_PaddedReplyRouted ==
    /\ pc = "returned"
    /\ router_reply = Returned(" DataLookup\n")
    /\ result.intent = "DataLookup"
    /\ Ran("tools")

(***************************************************************************)
(* Concurrent requests.  query_assistant is a plain def, so the server     *)
(* runs each request on a thread of its pool, and all of them call         *)
(* graph_instance.invoke: the threads share one OutputValidator and its    *)
(* stats.  validate_answer updates stats with five "+=" statements and no  *)
(* lock; each is a load of stats[key] followed by a store, and a thread    *)
(* switch can fall between the two.                                        *)
(***************************************************************************)
ConcurrentCalls ==
    { [answer |-> "Invoices are issued monthly. Sources: billing_guide.md",
       intent |-> "FAQ", evidence |-> <<"doc:billing_guide.md">>],
      [answer |-> "Too short",
       intent |-> "DataLookup", evidence |-> <<"tool:account_lookup">>] }

\* the "+=" statements one call of validate_answer executes, in order: the
\* key of stats and the amount added
CounterSteps(call) ==
    << <<"total", 1>>,
       << IF validate_answer(call.answer, call.intent, call.evidence).is_valid
          THEN "valid" ELSE "invalid", 1 >>,
       <<"total_evidence", Len(call.evidence)>>,
       <<"total_answer_length", Len(call.answer)>> >>

\* a thread entering the statistics update of validate_answer: step is the
\* "+=" statement it is at, loaded the value it has read for it
Worker(call) == [call |-> call, step |-> 1, holding |-> FALSE, loaded |-> 0]

Finished(w) == workers[w].step > Len(CounterSteps(workers[w].call))

ConcurrentInit ==
    /\ workers \in [1..MaxWorkers -> {Worker(call) : call \in ConcurrentCalls}]
    /\ pc = "idle"
    /\ state = InitialState("", NoneVal)
    /\ stats = [total |-> 0, valid |-> 0, invalid |-> 0, total_evidence |-> 0,
                total_answer_length |-> 0]
    /\ retriever_ready = FALSE
    /\ result = NoResult
    /\ invocations = 0
    /\ raw_query = ""
    /\ forwarded = <<>>
    /\ trace = <<>>
    /\ router_reply = NoReply
    /\ safety_intent = NoneVal
    /\ tool_calls = <<>>
    /\ tool_results = <<>>
    /\ invoked = <<>>
    /\ stats_at_invoke = stats
    /\ outcomes = <<>>
    /\ answer_validation = NoValidation
    /\ direct_call = NoCall

\* the first half of self.stats[key] += amount: read self.stats[key]
Load(w) ==
    /\ ~Finished(w)
    /\ ~workers[w].holding
    /\ workers' = [workers EXCEPT
                      ![w].holding = TRUE,
                      ![w].loaded = stats[CounterSteps(workers[w].call)[workers[w].step][1]]]
    /\ UNCHANGED <<pc, state, stats, retriever_ready, result, invocations, raw_query,
                   forwarded, trace, router_reply, safety_intent, tool_calls,
                   tool_results, invoked, stats_at_invoke, outcomes,
                   answer_validation, direct_call>>

\* the second half: store the value read plus amount
Store(w) ==
    /\ ~Finished(w)
    /\ workers[w].holding
    /\ LET counter == CounterSteps(workers[w].call)[workers[w].step]
       IN  stats' = [stats EXCEPT ![counter[1]] = workers[w].loaded + counter[2]]
    /\ workers' = [workers EXCEPT ![w].holding = FALSE, ![w].step = @ + 1]
    /\ UNCHANGED <<pc, state, retriever_ready, result, invocations, raw_query,
                   forwarded, trace, router_reply, safety_intent, tool_calls,
                   tool_results, invoked, stats_at_invoke, outcomes,
                   answer_validation, direct_call>>

ConcurrentNext ==
    \/ \E w \in 1..MaxWorkers : Load(w)
    \/ \E w \in 1..MaxWorkers : Store(w)

ConcurrentSpec == ConcurrentInit /\ [][ConcurrentNext]_vars

RECURSIVE EvidenceOfCalls(_)
EvidenceOfCalls(n) ==
    IF n = 0 THEN 0 ELSE Len(workers[n].call.evidence) + EvidenceOfCalls(n - 1)

RECURSIVE AnswerLengthOfCalls(_)
AnswerLengthOfCalls(n) ==
    IF n = 0 THEN 0 ELSE Len(workers[n].call.answer) + AnswerLengthOfCalls(n - 1)

\* C16: once every thread has completed its call of validate_answer, total is
\* the number of calls made, total = valid + invalid, and total_evidence and
\* total_answer_length are the sums over the calls.
C16_NoCounterUpdateLost ==
    (workers # NoWorkers /\ \A w \in DOMAIN workers : Finished(w)) =>
        /\ stats.total = Len(workers)
        /\ stats.total = stats.valid + stats.invalid
        /\ stats.total_evidence = EvidenceOfCalls(Len(workers))
        /\ stats.total_answer_length = AnswerLengthOfCalls(Len(workers))

\* C17: a step of the validate node leaves in answer the sanitized text of the
\* answer it found, with the disclaimer sentence appended before sanitizing
\* exactly when validate_answer reports invalid; and it appends to errors the
\* warnings of validate_answer when that reports invalid, followed by the
\* warnings of validate_evidence when that reports invalid.
C17_DisclaimerWarningsAndSanitizing ==
    [][(pc = "validate" /\ pc' = "END") =>
          LET validation == answer_validation'
              evidence_validation == validate_evidence(state.evidence)
          IN  /\ state'.answer =
                    sanitize_output(IF validation.is_valid
                                    THEN state.answer
                                    ELSE state.answer \o Disclaimer)
              /\ EndsWith(state'.answer, Strip(Disclaimer)) <=> ~validation.is_valid
              /\ IsPrefix(state.errors
                            \o (IF validation.is_valid THEN <<>> ELSE validation.warnings)
                            \o (IF evidence_validation.is_valid
                                THEN <<>> ELSE evidence_validation.warnings),
                          state'.errors)]_vars

\* an invalid answer without evidence was returned: disclaimer, both kinds of
\* warnings, and the blank lines before the disclaimer collapsed
C17_InvalidAnswerReturned ==
    /\ pc = "returned"
    /\ EndsWith(result.answer, "**Evidence:**\n\n" \o Strip(Disclaimer))
    /\ \E i \in 1..Len(result.errors) : result.errors[i] = "No evidence provided"
    /\ \E i \in 1..Len(result.errors) : result.errors[i] = "No evidence collected"

\* C18: once the safety check has run on a query that matches at least one
\* sensitive topic, evidence holds the tag safety:sensitive_topic_detected:
\* followed by the matched topics joined by commas, and the safety check left
\* intent = Escalation.
C18_MatchedTopicTaggedAndEscalated ==
    (Ran("safety_check")
        /\ \E check \in check_sensitive_content(raw_query) : check.is_sensitive) =>
        /\ safety_intent = "Escalation"
        /\ \E check \in check_sensitive_content(raw_query) :
              \E i \in 1..Len(state.evidence) :
                 state.evidence[i] = "safety:sensitive_topic_detected:"
                                     \o Join(check.matched_topics, ",")

\* C19: within one invocation every step of a node leaves the previous evidence
\* and the previous errors as prefixes of the new ones: entries are only added
\* at the end, never removed, reordered or rewritten.
C19_EvidenceAndErrorsOnlyGrow ==
    [][(pc \in Nodes) =>
          /\ IsPrefix(state.evidence, state'.evidence)
          /\ IsPrefix(state.errors, state'.errors)]_vars

\* the safety check, the retrieve node and nothing else extended evidence;
\* the synthesize node and then the validate node extended errors
C19_SeveralNodesAppended ==
    /\ pc = "returned"
    /\ Len(result.evidence) = 3
    /\ StartsWith(result.evidence[1], "safety:pii_redacted:")
    /\ StartsWith(result.evidence[2], "doc:")
    /\ Len(result.errors) >= 2
    /\ StartsWith(result.errors[1], "Synthesis error:")
    /\ result.errors[2] = "FAQ answer missing explicit source citations"

(***************************************************************************)
(* OutputValidator.validate_answer on its own: one call on a fresh         *)
(* validator, with the arguments drawn from the sets below.                *)
(***************************************************************************)
RECURSIVE Repeat(_, _)
Repeat(s, n) ==
    IF n = 0 THEN ""
    ELSE IF n % 2 = 0 THEN LET half == Repeat(s, n \div 2) IN half \o half
    ELSE s \o Repeat(s, n - 1)

\* an answer of n characters that cites its sources
CitingAnswer(n) == "Sources: " \o Repeat("a", n - Len("Sources: "))

ValidatorAnswers ==
    { "",
      "Too short",
      "    ok    ",
      "I apologize for the confusion. Let me check that for you.",
      "Sorry, i'm just an ai and cannot say.",
      "You can Definitely do that.",
      "This will certainly work as described.",
      "Invoices are issued monthly. Sources: billing_guide.md",
      "Invoices are issued on the first day of each month.",
      CitingAnswer(2500),
      CitingAnswer(2501) }

ValidatorEvidence == {<<>>, <<"doc:billing_guide.md">>, <<"doc:a.md", "tool:account_lookup">>}

ValidatorInit ==
    /\ pc = "validator"
    /\ \E answer \in ValidatorAnswers, intent \in Intents, evidence \in ValidatorEvidence :
          state = [InitialState("", NoneVal) EXCEPT
                      !.answer = answer, !.intent = intent, !.evidence = evidence]
    /\ stats = [total |-> 0, valid |-> 0, invalid |-> 0, total_evidence |-> 0,
                total_answer_length |-> 0]
    /\ retriever_ready = FALSE
    /\ result = NoResult
    /\ invocations = 0
    /\ raw_query = ""
    /\ forwarded = <<>>
    /\ trace = <<>>
    /\ router_reply = NoReply
    /\ safety_intent = NoneVal
    /\ tool_calls = <<>>
    /\ tool_results = <<>>
    /\ invoked = <<>>
    /\ stats_at_invoke = stats
    /\ outcomes = <<>>
    /\ workers = NoWorkers
    /\ answer_validation = NoValidation
    /\ direct_call = NoCall

\* validator.validate_answer(answer, intent, evidence)
ValidateAnswerCall ==
    /\ pc = "validator"
    /\ answer_validation' = validate_answer(state.answer, state.intent, state.evidence)
    /\ stats' = StatsAfter(stats, answer_validation'.is_valid, state.answer, state.evidence)
    /\ pc' = "validated"
    /\ UNCHANGED <<state, retriever_ready, result, invocations, raw_query, forwarded,
                   trace, router_reply, safety_intent, tool_calls, tool_results,
                   invoked, stats_at_invoke, outcomes, workers, direct_call>>

ValidatorNext == ValidateAnswerCall

ValidatorSpec == ValidatorInit /\ [][ValidatorNext]_vars

\* the answer contains one of the denylisted filler phrases, in any letter case
HasFillerPhrase(answer) ==
    \E k \in 1..Len(banned_content_patterns) :
        Contains(ToLower(answer), ToLower(banned_content_patterns[k]))

Called(fn, args) == [fn |-> fn, args |-> args, result |-> NoneVal]

\* the texts made of at most n of the pieces, in any order
RECURSIVE Concats(_, _)
Concats(pieces, n) ==
    IF n = 0 THEN {""}
    ELSE LET shorter == Concats(pieces, n - 1)
         IN  shorter \cup {s \o piece : s \in shorter, piece \in pieces}

SanitizePieces == {"<script>", "</script>", "\n\n\n", "\n\n", " ", "a", "<"}

PiiPieces ==
    {"jo@ex.co", "@x.com", "555 123 4567", "123-45-6789", "1234-5678-9012-3456",
     " ", "+1-", "4567"}

\* the dicts with no entry for key or one of the values under it
Optional(key, values) == {<<>>} \cup {<< <<key, value>> >> : value \in values}

AccountIdValues == {"A001", "A1001", "A001\n", "a001", "A01"}

MonthValues == {"2025-10", "2025-13", "2025-1", "2025-10\n", "invalid-date"}

IntValues == {"0", "1", "20", "21", "365", "366", "abc"}

\* the <<tool_name, params>> validate_tool_params is called with
ToolParams ==
    {<<"account_lookup", account_id \o company>> :
        account_id \in Optional("account_id", AccountIdValues),
        company \in Optional("company", {"Company_007"})}
    \cup {<<"invoice_status", account_id \o period>> :
        account_id \in Optional("account_id", AccountIdValues),
        period \in Optional("period", MonthValues)}
    \cup {<<"ticket_summary", account_id \o window_days>> :
        account_id \in Optional("account_id", {"A001", "A1001"}),
        window_days \in Optional("window_days", IntValues)}
    \cup {<<"usage_report", account_id \o month>> :
        account_id \in Optional("account_id", {"A001", "A1001"}),
        month \in Optional("month", MonthValues)}
    \cup {<<"kb_search", query \o k>> :
        query \in Optional("query", {"reset password"}),
        k \in Optional("k", IntValues)}

\* the answers and evidence lists check_intent_answer_match is called with
MatchAnswers ==
    { "Invoices are issued monthly.",
      "Please contact our team.",
      "Our SUPPORT desk will help." }

MatchEvidence ==
    { <<>>,
      <<"doc:billing_guide.md">>,
      <<"safety:pii_redacted:email", "doc:billing_guide.md">>,
      <<"tool:account_lookup:['account_id']">>,
      <<"tool_justification:Account data is required.">>,
      <<"tool_justification:Use tool: account_lookup">>,
      <<"tool_justification:See doc: billing_guide.md">>,
      <<"safety:pii_redacted:email">>,
      <<"escalated:human_support_required">> }

\* the pieces of the queries _determine_tool_calls is called with
DeriveWords ==
    {"invoice ", "ticket ", "usage ", "my account ", "A007 ", "Company 7 ",
     "august ", "hello "}

\* the calls made: a function with its arguments
DirectCalls ==
    {Called("sanitize_output", <<text>>) : text \in Concats(SanitizePieces, MaxPieces)}
    \cup {Called("check_pii_exposure", <<query>>) : query \in Concats(PiiPieces, MaxPiiPieces)}
    \cup {Called("validate_tool_params", <<tool_params[1], tool_params[2]>>) :
             tool_params \in ToolParams}
    \cup {Called("_determine_tool_calls", <<query, account_context>>) :
             query \in Concats(DeriveWords, MaxWords),
             account_context \in {NoneVal, "", "A001"}}
    \cup {Called("check_intent_answer_match", <<intent, answer, evidence>>) :
             intent \in Intents \cup {"Billing", NoneVal}, answer \in MatchAnswers,
             evidence \in MatchEvidence}

DirectInit ==
    /\ pc = "called"
    /\ direct_call \in DirectCalls
    /\ state = InitialState("", NoneVal)
    /\ stats = [total |-> 0, valid |-> 0, invalid |-> 0, total_evidence |-> 0,
                total_answer_length |-> 0]
    /\ retriever_ready = FALSE
    /\ result = NoResult
    /\ invocations = 0
    /\ raw_query = ""
    /\ forwarded = <<>>
    /\ trace = <<>>
    /\ router_reply = NoReply
    /\ safety_intent = NoneVal
    /\ tool_calls = <<>>
    /\ tool_results = <<>>
    /\ invoked = <<>>
    /\ stats_at_invoke = stats
    /\ outcomes = <<>>
    /\ workers = NoWorkers
    /\ answer_validation = NoValidation

\* the called function returns value
CallReturns(value) ==
    /\ direct_call' = [direct_call EXCEPT !.result = value]
    /\ pc' = "call_returned"
    /\ UNCHANGED <<state, stats, retriever_ready, result, invocations, raw_query,
                   forwarded, trace, router_reply, safety_intent, tool_calls,
                   tool_results, invoked, stats_at_invoke, outcomes, workers,
                   answer_validation>>

\* validator.sanitize_output(text)
SanitizeOutputCall ==
    /\ pc = "called"
    /\ direct_call.fn = "sanitize_output"
    /\ CallReturns(sanitize_output(direct_call.args[1]))

\* safety.check_pii_exposure(query)
CheckPiiExposureCall ==
    /\ pc = "called"
    /\ direct_call.fn = "check_pii_exposure"
    /\ CallReturns(check_pii_exposure(direct_call.args[1]))

\* safety.validate_tool_params(tool_name, params)
ValidateToolParamsCall ==
    /\ pc = "called"
    /\ direct_call.fn = "validate_tool_params"
    /\ CallReturns(validate_tool_params(direct_call.args[1], direct_call.args[2]))

\* validator.check_intent_answer_match(intent, answer, evidence)
CheckIntentAnswerMatchCall ==
    /\ pc = "called"
    /\ direct_call.fn = "check_intent_answer_match"
    /\ CallReturns(check_intent_answer_match(direct_call.args[1], direct_call.args[2],
                                             direct_call.args[3]))

\* self._determine_tool_calls(query, account_context)
DetermineToolCallsCall ==
    /\ pc = "called"
    /\ direct_call.fn = "_determine_tool_calls"
    /\ CallReturns(determine_tool_calls(direct_call.args[1], direct_call.args[2]))

DirectNext ==
    \/ SanitizeOutputCall
    \/ CheckPiiExposureCall
    \/ ValidateToolParamsCall
    \/ CheckIntentAnswerMatchCall
    \/ DetermineToolCallsCall

DirectSpec == DirectInit /\ [][DirectNext]_vars

\* sanitize_output has returned r for the text x
Sanitized(x, r) ==
    /\ pc = "call_returned"
    /\ direct_call.fn = "sanitize_output"
    /\ direct_call.args[1] = x
    /\ direct_call.result = r

\* C21: sanitize_output is idempotent: sanitizing its result again gives the
\* same text; and the result contains no literal <script> or </script>, no
\* run of three or more newlines and no leading or trailing whitespace.
C21_SanitizeOutputIdempotent ==
    (pc = "call_returned" /\ direct_call.fn = "sanitize_output") =>
        LET once == direct_call.result
        IN  /\ sanitize_output(once) = once
            /\ ~Contains(once, "<script>")
            /\ ~Contains(once, "</script>")
            /\ ~Contains(once, "\n\n\n")
            /\ once # "" => /\ Ch(once, 1) \notin Whitespace
                            /\ Ch(once, Len(once)) \notin Whitespace

\* a text with both tags and five newlines between them has been sanitized
C21_TagsAndNewlinesSanitized ==
    Sanitized("<script>\n\n\n\n\n</script>", "[script]\n\n[/script]")

\* C22: PII redaction is idempotent: check_pii_exposure applied to its own
\* redacted_text reports has_pii = false and returns that text unchanged; no
\* placeholder [REDACTED_<TYPE>] is matched by a PII pattern.
C22_RedactionIdempotent ==
    (pc = "call_returned" /\ direct_call.fn = "check_pii_exposure") =>
        LET redacted == direct_call.result.redacted_text
            again == check_pii_exposure(redacted)
        IN  /\ ~again.has_pii
            /\ again.redacted_text = redacted
            /\ \A t, p \in 1..Len(pii_patterns) :
                  ~HasMatch(pii_patterns[p].pattern, Placeholder(pii_patterns[t].type))

\* a query with an email address and a phone number has been redacted
C22_EmailAndPhoneRedacted ==
    /\ pc = "call_returned"
    /\ direct_call.fn = "check_pii_exposure"
    /\ direct_call.args[1] = "jo@ex.co 555 123 4567"
    /\ direct_call.result.has_pii
    /\ direct_call.result.pii_types = <<"email", "phone">>
    /\ direct_call.result.redacted_text = "[REDACTED_EMAIL] [REDACTED_PHONE]"

\* 'A' followed by exactly 3 digits
IsLetterAAndThreeDigits(x) == Len(x) = 4 /\ Ch(x, 1) = "A" /\ IsDigit(SubSeq(x, 2, 4))

\* the shape dddd-dd
IsYearDashMonth(x) ==
    Len(x) = 7 /\ IsDigit(SubSeq(x, 1, 4)) /\ Ch(x, 5) = "-" /\ IsDigit(SubSeq(x, 6, 7))

IsIntegerWithin(x, lo, hi) == IsIntStr(x) /\ IntOf(x) >= lo /\ IntOf(x) <= hi

\* a rule of the schema table is violated by the call
ViolatesSchemaTable(tool_name, params) ==
    \/ /\ tool_name = "account_lookup"
       /\ \/ ~HasKey(params, "account_id") /\ ~HasKey(params, "company")
          \/ /\ HasKey(params, "account_id")
             /\ ~IsLetterAAndThreeDigits(Get(params, "account_id"))
    \/ /\ tool_name = "invoice_status"
       /\ \/ ~HasKey(params, "account_id")
          \/ HasKey(params, "period") /\ ~IsYearDashMonth(Get(params, "period"))
    \/ /\ tool_name = "ticket_summary"
       /\ \/ ~HasKey(params, "account_id")
          \/ /\ HasKey(params, "window_days")
             /\ ~IsIntegerWithin(Get(params, "window_days"), 1, 365)
    \/ /\ tool_name = "usage_report"
       /\ \/ ~HasKey(params, "account_id")
          \/ ~HasKey(params, "month")
          \/ HasKey(params, "month") /\ ~IsYearDashMonth(Get(params, "month"))
    \/ /\ tool_name = "kb_search"
       /\ \/ ~HasKey(params, "query")
          \/ HasKey(params, "k") /\ ~IsIntegerWithin(Get(params, "k"), 1, 20)

\* C23: validate_tool_params(tool, params) returns is_valid = true exactly
\* when no rule of the schema table is violated (an account_id of
\* account_lookup is 'A' and exactly 3 digits, a period or month has the shape
\* dddd-dd, window_days is an integer in [1,365], k an integer in [1,20], and
\* the required parameters are present).
C23_ValidExactlyWhenNoRuleViolated ==
    (pc = "call_returned" /\ direct_call.fn = "validate_tool_params") =>
        (direct_call.result.is_valid
            <=> ~ViolatesSchemaTable(direct_call.args[1], direct_call.args[2]))

\* C24: validate_tool_params reports is_valid = true for the calls the
\* guardrails test lists under valid tool parameters: account_lookup with
\* {account_id: "A1001"}, invoice_status with {account_id: "A1001", period:
\* "2025-10"} and usage_report with {account_id: "A1001", month: "2025-10"}.
C24_ListedValidCallsAreValid ==
    ( /\ pc = "call_returned"
      /\ direct_call.fn = "validate_tool_params"
      /\ <<direct_call.args[1], direct_call.args[2]>> \in
            { <<"account_lookup", << <<"account_id", "A1001">> >> >>,
              <<"invoice_status",
                << <<"account_id", "A1001">>, <<"period", "2025-10">> >> >>,
              <<"usage_report",
                << <<"account_id", "A1001">>, <<"month", "2025-10">> >> >> } )
        => direct_call.result.is_valid

\* the evidence holds a tag of the given type
HasTagOfType(evidence, type) ==
    \E i \in 1..Len(evidence) :
        Contains(evidence[i], ":") /\ TypeOf(evidence[i]) = type

\* C25: check_intent_answer_match returns true for intent FAQ only if the
\* evidence holds a tag of type doc, for intent DataLookup only if it holds a
\* tag of type tool (a tool_justification or safety tag alone never suffices),
\* for intent Escalation only if the answer contains "support" or "contact" in
\* any letter case, and returns true for every other intent.
C25_MatchNeedsTagOfTheIntentsType ==
    (pc = "call_returned" /\ direct_call.fn = "check_intent_answer_match") =>
        LET intent == direct_call.args[1]
            answer == direct_call.args[2]
            evidence == direct_call.args[3]
            matched == direct_call.result
        IN  /\ (intent = "FAQ" /\ matched) => HasTagOfType(evidence, "doc")
            /\ (intent = "DataLookup" /\ matched) => HasTagOfType(evidence, "tool")
            /\ (intent = "Escalation" /\ matched) =>
                  \/ Contains(ToLower(answer), "support")
                  \/ Contains(ToLower(answer), "contact")
            /\ intent \notin {"FAQ", "DataLookup", "Escalation"} => matched

\* _determine_tool_calls has returned for a query and an account context
Derived == pc = "call_returned" /\ direct_call.fn = "_determine_tool_calls"

\* the whitespace-delimited tokens of the query that are 'A' followed by digits
AccountTokens(query) ==
    LET words == Split(query)
    IN  {i \in 1..Len(words) : StartsWith(words[i], "A") /\ IsDigit(Tail(words[i]))}

HasAccountKeyword(query) ==
    \/ Contains(ToLower(query), "account")
    \/ Contains(ToLower(query), "plan")
    \/ Contains(ToLower(query), "tier")

\* C26: without account context and with "account", "plan" or "tier" in the
\* query, a token that is 'A' followed by digits is used as the account_id of
\* the single account_lookup candidate wherever it stands in the query; the
\* company pattern is used only when the query has no such token.
C26_AccountTokenBeforeCompanyPattern ==
    ( /\ Derived
      /\ ~Truthy(direct_call.args[2])
      /\ HasAccountKeyword(direct_call.args[1])
      /\ AccountTokens(direct_call.args[1]) # {} )
        => LET words == Split(direct_call.args[1])
               first == CHOOSE i \in AccountTokens(direct_call.args[1]) :
                           \A j \in AccountTokens(direct_call.args[1]) : i <= j
           IN  direct_call.result
                  = << <<"account_lookup", << <<"account_id", words[first]>> >> >> >>

\* the tool names of a candidate list, in order
NamesOf(candidates) == [i \in 1..Len(candidates) |-> candidates[i][1]]

DerivationOrder == <<"invoice_status", "ticket_summary", "usage_report", "account_lookup">>

\* the position of a tool name in the derivation order, 0 when it has none
OrderOf(name) ==
    IF \E k \in 1..Len(DerivationOrder) : DerivationOrder[k] = name
    THEN CHOOSE k \in 1..Len(DerivationOrder) : DerivationOrder[k] = name
    ELSE 0

\* C27: the candidate list derived for any query and account context is a
\* duplicate-free subsequence of [invoice_status, ticket_summary,
\* usage_report, account_lookup]: every name is one of the four and the names
\* stand in strictly increasing order of the list.
C27_CandidatesFollowDerivationOrder ==
    Derived =>
        LET names == NamesOf(direct_call.result)
        IN  /\ \A i \in 1..Len(names) : OrderOf(names[i]) # 0
            /\ \A i, j \in 1..Len(names) :
                  i < j => OrderOf(names[i]) < OrderOf(names[j])

\* several predicates fired for one query: three candidates were derived
C27_ThreeCandidatesDerived ==
    /\ Derived
    /\ direct_call.args = <<"usage ticket invoice ", "A001">>
    /\ NamesOf(direct_call.result) = <<"invoice_status", "ticket_summary", "usage_report">>

\* at least one keyword predicate of the derivation holds of the query
HasToolKeyword(query) ==
    \E keyword \in {"invoice", "payment", "billing", "ticket", "support", "usage",
                    "api", "storage", "account", "plan", "tier"} :
        Contains(ToLower(query), keyword)

FallbackCandidate(account_context) ==
    <<"account_lookup", << <<"account_id", account_context>> >> >>

\* C28 as stated: whenever an account context is given, the derivation yields
\* at least one candidate.
C28_ContextGivesCandidate ==
    (Derived /\ direct_call.args[2] # NoneVal) => Len(direct_call.result) >= 1

\* C28, amended: whenever the account context is a non-empty string, the
\* derivation yields at least one candidate, and exactly account_lookup with
\* that account id when no keyword predicate holds of the query; with a
\* candidate already produced the fallback adds nothing (account_lookup occurs
\* at most once, and not at all unless "account", "plan" or "tier" is in the
\* query), and with no or an empty account context and no keyword it yields
\* no candidate.
C28_NonEmptyContextGivesCandidate ==
    Derived =>
        LET query == direct_call.args[1]
            account_context == direct_call.args[2]
            candidates == direct_call.result
        IN  /\ Truthy(account_context) => Len(candidates) >= 1
            /\ (Truthy(account_context) /\ ~HasToolKeyword(query))
                  => candidates = <<FallbackCandidate(account_context)>>
            /\ (Truthy(account_context) /\ HasToolKeyword(query)) =>
                  /\ Cardinality({i \in 1..Len(candidates) :
                                     candidates[i][1] = "account_lookup"}) <= 1
                  /\ ~HasAccountKeyword(query) =>
                        \A i \in 1..Len(candidates) : candidates[i][1] # "account_lookup"
            /\ (~Truthy(account_context) /\ ~HasToolKeyword(query)) => candidates = <<>>

\* the fallback produced the only candidate of a query without keywords
C28_FallbackCandidateDerived ==
    /\ Derived
    /\ direct_call.args = <<"hello ", "A001">>
    /\ direct_call.result = <<FallbackCandidate("A001")>>

\* C29: the answer returned by every invocation, on every path including
\* Escalation, contains no literal <script> or </script>.
C29_ReturnedAnswerHasNoScriptTag ==
    pc = "returned" =>
        /\ ~Contains(result.answer, "<script>")
        /\ ~Contains(result.answer, "</script>")

\* C30: an invocation that ends with intent DataLookup and in which no tool
\* was invoked returns errors holding a tools-stage error or "Answer-intent
\* mismatch detected", whatever text the justification oracle returned.
C30_NoToolInvokedIsReported ==
    (pc = "returned" /\ result.intent = "DataLookup" /\ invoked = <<>>) =>
        \/ HasPrefixed(result.errors, "Tools error:")
        \/ \E i \in 1..Len(result.errors) :
              result.errors[i] = "Answer-intent mismatch detected"

=============================================================================
